---- MODULE Spec2Model ----
(***************************************************************************)
(* Room presence and signaling relay of LambdaMeet                         *)
(* (server/src/signaling.ts) together with the moderation routes of        *)
(* server/src/routes.ts that drive it.                                     *)
(*                                                                         *)
(* A WebSocket is a number 1..MaxSockets.  The four module-level maps of   *)
(* signaling.ts are functions whose DOMAIN is the key set of the Map.      *)
(* Every action is one run-to-completion callback of the Node event loop:  *)
(* the part of the connection handler before `await findMeeting`, the part *)
(* after it, a "message" event, a "close" event and one HTTP route.        *)
(*                                                                         *)
(* The web client's signaling socket (web/src/App.tsx: connectSignaling,   *)
(* scheduleReconnect, handleSocketClose) and its reconnect delay           *)
(* (web/src/lib/backoff.ts) are modelled beside the relay, with            *)
(* specifications of their own.                                            *)
(***************************************************************************)
EXTENDS Integers, Sequences, FiniteSets, TLC

\* Number of WebSocket objects of the model.
MaxSockets == 3

\* Number of connections accepted in behaviours with the moderation routes.
MaxModerated == 2

\* Number of WebSocket objects the client creates.
MaxClientSockets == 4

\* Largest attempt number passed to computeBackoffMs.
MaxAttempt == 6

Sockets == 1..MaxSockets

\* Rows of the meeting table (findMeeting): hostId and policyJson.
\* policyJson is null ("null"), or an object whose lobbyRequired field is
\* missing ("absent"), true ("true") or false ("false").
MeetingTable ==
    [m1 |-> [hostId |-> "h", policy |-> "false"],
     m2 |-> [hostId |-> "h", policy |-> "null"]]

Meetings == DOMAIN MeetingTable

\* Subjects for which a valid token exists, with the role the token carries.
RoleOf == [h |-> "user", a |-> "guest", adm |-> "admin"]

Users == DOMAIN RoleOf

\* auth.fullName || auth.email of each subject, the name of its RoomParticipant.
NameOf == [h |-> "Hana Host", a |-> "a@example.org", adm |-> "Ada Admin"]

\* Client payloads (the relay never parses them).
Payloads == {"offer", "answer"}

\* Values of the query parameters of the upgrade request.  "" is a missing
\* parameter, "bad" a token verifyToken rejects, "mx" an id of no meeting.
TokenInputs == Users \cup {"", "bad"}

\* JSON.stringify of a boolean.
BoolStr(b) == IF b THEN "true" ELSE "false"

EmptyMap == [k \in {} |-> k]

MapSet(f, k, v) == [x \in (DOMAIN f) \cup {k} |-> IF x = k THEN v ELSE f[x]]

MapDelete(f, k) == [x \in (DOMAIN f) \ {k} |-> f[x]]

\* How updateLiveKitRoomMetadata ends: it resolves (true, or false when LiveKit
\* is not configured), or client.updateRoomMetadata rejects.
MirrorOutcomes == {"ok", "failed"}

NoConn == [userId |-> "-", meetingId |-> "-", role |-> "-"]

NoOp == [op |-> "init", actor |-> "-", sock |-> 0, meetingId |-> "-",
         userId |-> "-", arg |-> "-", status |-> 0, ret |-> FALSE]

VARIABLES
    pc,               \* position of each connection handler
    readyState,       \* WebSocket.readyState of each socket
    conn,             \* auth and meetingId captured by the handler's closure
    participantMap,   \* meetingId -> (userId -> socket), the admitted sets
    lobbyMap,         \* meetingId -> (userId -> socket), the lobby sets
    roomParticipants, \* socket -> RoomParticipant
    lockMap,          \* meetingId -> boolean
    sent,             \* socket.send calls of the last callback, in order
    closed,           \* socket.close calls of the last callback, in order
    audit,            \* auditLog calls of the last callback, in order
    mirror,           \* how the metadata updates the last callback started end
    lastOp,           \* the last callback: what ran, its inputs and result
    superseded,       \* registered sockets whose participant registered again
    wsState,          \* client: readyState of each WebSocket it created
    wsOpened,         \* client: the socket's open event has been delivered
    wsClosure,        \* client: state values seen by the handlers of each socket
    wsRef,            \* client: wsRef.current, 0 for null
    skipReconnectRef, \* client: skipReconnectRef.current
    reconnectTimerRef,\* client: the timeout of scheduleReconnect
    autoReconnect,    \* client: the autoReconnect state
    reconnectAttempts,\* client: the reconnectAttempts state
    wsStatus,         \* client: the wsStatus state
    callActive,       \* client: a call or a LiveKit session is up
    leaving,          \* client: toggleCall awaits leaveLiveKit and endCall
    terminal,         \* client: a 4001/4002 close arrived, no connect since
    wsClosedBy,       \* client: the function whose close() call closed each socket
    timerSetBy,       \* client: the socket whose close event set the timeout, 0 for none
    clientOp,         \* client: the last callback that ran
    backoff           \* arguments and result of a computeBackoffMs call

serverVars == <<pc, readyState, conn, participantMap, lobbyMap, roomParticipants,
                lockMap, sent, closed, audit, mirror, lastOp, superseded>>

clientVars == <<wsState, wsOpened, wsClosure, wsRef, skipReconnectRef,
                reconnectTimerRef, autoReconnect, reconnectAttempts, wsStatus,
                callActive, leaving, terminal, wsClosedBy, timerSetBy, clientOp>>

vars == <<serverVars, clientVars, backoff>>

registry == <<participantMap, lobbyMap, roomParticipants, lockMap>>

ServerInit ==
    /\ pc = [s \in Sockets |-> "idle"]
    /\ readyState = [s \in Sockets |-> "NONE"]
    /\ conn = [s \in Sockets |-> NoConn]
    /\ participantMap = EmptyMap
    /\ lobbyMap = EmptyMap
    /\ roomParticipants = EmptyMap
    /\ lockMap = EmptyMap
    /\ sent = <<>>
    /\ closed = <<>>
    /\ audit = <<>>
    /\ mirror = "none"
    /\ lastOp = NoOp
    /\ superseded = {}

ClientSockets == 1..MaxClientSockets

\* The values of the render in which a handler was created.
NoClosure == [autoReconnect |-> FALSE, reconnectAttempts |-> 0]

\* reconnectTimerRef.current is null ("null"), the id of a timeout that has
\* not run ("pending") or the id of one that has ("fired").
NoTimer == [state |-> "null", attempt |-> 0, delay |-> 0, closure |-> NoClosure]

NoClientOp == [op |-> "init", socket |-> 0, code |-> 0]

\* The component after its first render (useState and useRef initial values).
ClientInit ==
    /\ wsState = [s \in ClientSockets |-> "NONE"]
    /\ wsOpened = [s \in ClientSockets |-> FALSE]
    /\ wsClosure = [s \in ClientSockets |-> NoClosure]
    /\ wsRef = 0
    /\ skipReconnectRef = FALSE
    /\ reconnectTimerRef = NoTimer
    /\ autoReconnect = TRUE
    /\ reconnectAttempts = 0
    /\ wsStatus = "disconnected"
    /\ callActive = FALSE
    /\ leaving = FALSE
    /\ terminal = FALSE
    /\ wsClosedBy = [s \in ClientSockets |-> "none"]
    /\ timerSetBy = 0
    /\ clientOp = NoClientOp

NoBackoff == [attempt |-> 0, baseMs |-> 0, maxMs |-> 0, jitter |-> 0, rand |-> 0,
              delay |-> -1]

Init == ServerInit /\ ClientInit /\ backoff = NoBackoff

(***************************************************************************)
(* Helpers of the model                                                    *)
(***************************************************************************)

Notice(type, meetingId, arg) == [type |-> type, meetingId |-> meetingId, arg |-> arg]

\* auditLog(event, actor, target, ...)
Audit(event, actor, target, meta) ==
    [event |-> event, actor |-> actor, target |-> target, meta |-> meta]

Op(op, actor, sock, meetingId, userId, arg, status, ret) ==
    [op |-> op, actor |-> actor, sock |-> sock, meetingId |-> meetingId,
     userId |-> userId, arg |-> arg, status |-> status, ret |-> ret]

\* WebSocket.close(): an open socket starts the closing handshake; on a socket
\* that is closing or closed the call changes nothing.
CloseCall(rs, s) == [rs EXCEPT ![s] = IF @ = "OPEN" THEN "CLOSING" ELSE @]

RECURSIVE SeqOfSet(_)
SeqOfSet(S) ==
    IF S = {} THEN <<>>
    ELSE LET x == CHOOSE y \in S : TRUE IN <<x>> \o SeqOfSet(S \ {x})

\* verifyToken: the payload of a valid token, or null.
verifyToken(token) ==
    IF token \in Users
    THEN [ok |-> TRUE, sub |-> token, role |-> RoleOf[token]]
    ELSE [ok |-> FALSE, sub |-> "-", role |-> "-"]

\* policy?.lobbyRequired ?? false
lobbyRequiredOfDefaultOpen(meeting) == IF meeting.policy = "true" THEN TRUE ELSE FALSE

\* policy?.lobbyRequired ?? true
lobbyRequiredOf(meeting) == IF meeting.policy = "false" THEN FALSE ELSE TRUE

\* lockMap.get(meetingId) ?? false
lockedOf(lm, meetingId) == IF meetingId \in DOMAIN lm THEN lm[meetingId] ELSE FALSE

\* meeting.hostId !== req.user.sub && req.user.role !== "admin"
forbidden(meetingId, actor) ==
    MeetingTable[meetingId].hostId # actor /\ RoleOf[actor] # "admin"

(***************************************************************************)
(* signaling.ts: the registry functions.  Each takes the maps it reads and *)
(* returns the maps it leaves behind and the socket.send calls it makes.   *)
(***************************************************************************)

getParticipantRoom(pm, meetingId) ==
    IF meetingId \in DOMAIN pm THEN pm[meetingId] ELSE EmptyMap

getLobbyRoom(lm, meetingId) ==
    IF meetingId \in DOMAIN lm THEN lm[meetingId] ELSE EmptyMap

\* joinRoom that announces the newcomer to the sockets already in the room.
joinRoomAnnounced(pm, rp, socket, participant) ==
    [participantMap |->
        MapSet(pm, participant.meetingId,
               MapSet(getParticipantRoom(pm, participant.meetingId),
                      participant.userId, socket)),
     roomParticipants |-> MapSet(rp, socket, participant),
     sent |-> << [to |-> socket,
                  msg |-> Notice("joined", participant.meetingId, participant.role)] >>
              \o [i \in 1..Len(SeqOfSet({getParticipantRoom(pm, participant.meetingId)[u] :
                        u \in DOMAIN getParticipantRoom(pm, participant.meetingId)} \ {socket}))
                    |-> [to |-> SeqOfSet({getParticipantRoom(pm, participant.meetingId)[u] :
                        u \in DOMAIN getParticipantRoom(pm, participant.meetingId)} \ {socket})[i],
                         msg |-> Notice("joined", participant.meetingId, participant.role)]]]

joinRoom(pm, rp, socket, participant) ==
    [participantMap |->
        MapSet(pm, participant.meetingId,
               MapSet(getParticipantRoom(pm, participant.meetingId),
                      participant.userId, socket)),
     roomParticipants |-> MapSet(rp, socket, participant),
     sent |-> << [to |-> socket,
                  msg |-> Notice("joined", participant.meetingId, participant.role)] >>]

addToLobby(lm, rp, socket, participant) ==
    [lobbyMap |->
        MapSet(lm, participant.meetingId,
               MapSet(getLobbyRoom(lm, participant.meetingId),
                      participant.userId, socket)),
     roomParticipants |-> MapSet(rp, socket, participant),
     sent |-> << [to |-> socket,
                  msg |-> Notice("lobby", participant.meetingId, "-")] >>]

\* The loop of removeSocket over one map: delete the first key bound to socket.
removeFrom(map, socket, meetingId) ==
    IF meetingId \in DOMAIN map /\ \E u \in DOMAIN map[meetingId] : map[meetingId][u] = socket
    THEN [map EXCEPT ![meetingId] =
              MapDelete(@, CHOOSE u \in DOMAIN map[meetingId] : map[meetingId][u] = socket)]
    ELSE map

removeSocket(pm, lm, rp, socket, meetingId) ==
    [participantMap |-> removeFrom(pm, socket, meetingId),
     lobbyMap |-> removeFrom(lm, socket, meetingId),
     roomParticipants |-> MapDelete(rp, socket)]

\* handleMessage that loops over the sockets of every room, not only of the
\* room of meetingId.
handleMessageAllRooms(pm, rs, socket, meetingId, data) ==
    IF meetingId \notin DOMAIN pm THEN <<>>
    ELSE LET receivers == {s \in Sockets :
                              /\ s # socket
                              /\ rs[s] = "OPEN"
                              /\ \E m \in DOMAIN pm : \E u \in DOMAIN pm[m] : pm[m][u] = s}
         IN [i \in 1..Cardinality(receivers) |->
                [to |-> SeqOfSet(receivers)[i], msg |-> Notice("data", "-", data)]]

\* handleMessage that holds a frame back: when the sender's previous frame was
\* the last thing processed, that frame is written again in place of this one.
handleMessageStale(pm, rs, socket, meetingId, data) ==
    IF meetingId \notin DOMAIN pm THEN <<>>
    ELSE LET room == pm[meetingId]
             receivers == {room[u] : u \in {k \in DOMAIN room :
                               room[k] # socket /\ rs[room[k]] = "OPEN"}}
             out == IF lastOp.op = "message" /\ lastOp.sock = socket
                    THEN lastOp.arg ELSE data
         IN [i \in 1..Cardinality(receivers) |->
                [to |-> SeqOfSet(receivers)[i], msg |-> Notice("data", "-", out)]]

\* handleMessage without the readyState test of its loop: every other socket
\* of the room is written to.
handleMessageNoSkip(pm, rs, socket, meetingId, data) ==
    IF meetingId \notin DOMAIN pm THEN <<>>
    ELSE LET room == pm[meetingId]
             receivers == {room[u] : u \in {k \in DOMAIN room : room[k] # socket}}
         IN [i \in 1..Cardinality(receivers) |->
                [to |-> SeqOfSet(receivers)[i], msg |-> Notice("data", "-", data)]]

\* The client.send(data) calls of handleMessage, one per receiving socket.
handleMessage(pm, rs, socket, meetingId, data) ==
    IF meetingId \notin DOMAIN pm THEN <<>>
    ELSE LET room == pm[meetingId]
             receivers == {room[u] : u \in {k \in DOMAIN room :
                               room[k] # socket /\ rs[room[k]] = "OPEN"}}
         IN [i \in 1..Cardinality(receivers) |->
                [to |-> SeqOfSet(receivers)[i], msg |-> Notice("data", "-", data)]]

\* senderFound of handleMessage: what the callback logs, success or not_in_room.
senderFound(pm, socket, meetingId) ==
    /\ meetingId \in DOMAIN pm
    /\ \E u \in DOMAIN pm[meetingId] : pm[meetingId][u] = socket

\* listLobby with the socket of each entry left in the entry.
listLobbyWithSocket(lm, rp, meetingId) ==
    IF meetingId \notin DOMAIN lm THEN {}
    ELSE {[userId |-> u,
           role |-> IF lm[meetingId][u] \in DOMAIN rp THEN rp[lm[meetingId][u]].role ELSE "undefined",
           name |-> IF lm[meetingId][u] \in DOMAIN rp
                    THEN NameOf[rp[lm[meetingId][u]].userId] ELSE "undefined",
           socket |-> lm[meetingId][u]]
          : u \in DOMAIN lm[meetingId]}

\* The entries are a set: the keys of a Map are distinct and the order of the
\* list is that of the Map.  name is the name stored in the RoomParticipant
\* of the socket, which the handler takes from the token of that subject.
listLobby(lm, rp, meetingId) ==
    IF meetingId \notin DOMAIN lm THEN {}
    ELSE {[userId |-> u,
           role |-> IF lm[meetingId][u] \in DOMAIN rp THEN rp[lm[meetingId][u]].role ELSE "undefined",
           name |-> IF lm[meetingId][u] \in DOMAIN rp
                    THEN NameOf[rp[lm[meetingId][u]].userId] ELSE "undefined"]
          : u \in DOMAIN lm[meetingId]}

listParticipants(pm, rp, meetingId) ==
    IF meetingId \notin DOMAIN pm THEN {}
    ELSE {[userId |-> u,
           role |-> IF pm[meetingId][u] \in DOMAIN rp THEN rp[pm[meetingId][u]].role ELSE "undefined",
           name |-> IF pm[meetingId][u] \in DOMAIN rp
                    THEN NameOf[rp[pm[meetingId][u]].userId] ELSE "undefined"]
          : u \in DOMAIN pm[meetingId]}

getRoomSnapshot(meetingId) ==
    [locked |-> lockedOf(lockMap, meetingId),
     lobby |-> listLobby(lobbyMap, roomParticipants, meetingId),
     participants |-> listParticipants(participantMap, roomParticipants, meetingId)]

\* buildRoomMetadata with the two counts exchanged.
buildRoomMetadataSwapped(snapshot) ==
    [locked |-> snapshot.locked,
     lobbyCount |-> Cardinality(snapshot.participants),
     participantCount |-> Cardinality(snapshot.lobby),
     lobby |-> snapshot.lobby,
     participants |-> snapshot.participants]

\* The object buildRoomMetadata serialises.  The two lists are sets of
\* entries with distinct userId, so their length is their cardinality.
buildRoomMetadata(snapshot) ==
    [locked |-> snapshot.locked,
     lobbyCount |-> Cardinality(snapshot.lobby),
     participantCount |-> Cardinality(snapshot.participants),
     lobby |-> snapshot.lobby,
     participants |-> snapshot.participants]

\* The guards of admitLobbyUser: the lobby exists, holds userId, and the socket
\* found there has a RoomParticipant.
admitFinds(lm, rp, meetingId, userId) ==
    /\ meetingId \in DOMAIN lm
    /\ userId \in DOMAIN lm[meetingId]
    /\ lm[meetingId][userId] \in DOMAIN rp

denyFinds(lm, meetingId, userId) ==
    /\ meetingId \in DOMAIN lm
    /\ userId \in DOMAIN lm[meetingId]

kickFinds(pm, meetingId, userId) ==
    /\ meetingId \in DOMAIN pm
    /\ userId \in DOMAIN pm[meetingId]

(***************************************************************************)
(* signaling.ts: the connection handler and the socket events              *)
(***************************************************************************)

\* What the rest of the handler reads of auth and meetingId.  When the lookup
\* is going to find no meeting, auth is never read again.
Captured(auth, meetingId) ==
    IF meetingId \in Meetings
    THEN [userId |-> auth.sub, meetingId |-> meetingId, role |-> auth.role]
    ELSE [userId |-> "-", meetingId |-> meetingId, role |-> "-"]

\* wss.on("connection") up to `await findMeeting(meetingId)`.
Connect(token, meetingId, limit) ==
    \E s \in 1..limit :
        /\ pc[s] = "idle"
        /\ \A t \in Sockets : t < s => pc[t] # "idle"
        /\ sent' = <<>>
        /\ audit' = <<>>
        /\ mirror' = "none"
        /\ UNCHANGED registry
        /\ IF token = "" \/ meetingId = ""
           THEN /\ pc' = [pc EXCEPT ![s] = "rejected"]
                /\ readyState' = [readyState EXCEPT ![s] = "CLOSING"]
                /\ closed' = << [sock |-> s, code |-> 1008, reason |-> "Missing token or meeting"] >>
                /\ lastOp' = Op("connect", "-", s, "-", "-", "missing", 0, FALSE)
                /\ UNCHANGED conn
           ELSE IF ~verifyToken(token).ok
           THEN /\ pc' = [pc EXCEPT ![s] = "rejected"]
                /\ readyState' = [readyState EXCEPT ![s] = "CLOSING"]
                /\ closed' = << [sock |-> s, code |-> 1008, reason |-> "Invalid token"] >>
                /\ lastOp' = Op("connect", "-", s, "-", "-", "invalid", 0, FALSE)
                /\ UNCHANGED conn
           ELSE /\ pc' = [pc EXCEPT ![s] = "resolving"]
                /\ readyState' = [readyState EXCEPT ![s] = "OPEN"]
                /\ conn' = [conn EXCEPT ![s] = Captured(verifyToken(token), meetingId)]
                /\ closed' = <<>>
                /\ lastOp' = Op("connect", "-", s, meetingId, verifyToken(token).sub, "await", 0, TRUE)

\* The classification with the lock flag and the policy left out: everybody
\* but the host and the admins waits in the lobby.
placedInLobbyAlways(lm, meetingId, auth) ==
    LET meeting == MeetingTable[meetingId]
        isHost == auth.userId = meeting.hostId \/ auth.role = "admin"
    IN ~isHost

\* The classification without the lock flag: lobbyRequired && !isHost.
placedInLobbyPolicyOnly(lm, meetingId, auth) ==
    LET meeting == MeetingTable[meetingId]
        isHost == auth.userId = meeting.hostId \/ auth.role = "admin"
    IN lobbyRequiredOf(meeting) /\ ~isHost

\* The classification with isHost true of the host only, not of admins.
placedInLobbyHostOnly(lm, meetingId, auth) ==
    LET meeting == MeetingTable[meetingId]
        isHost == auth.userId = meeting.hostId
    IN (lockedOf(lm, meetingId) \/ lobbyRequiredOf(meeting)) /\ ~isHost

\* (locked || lobbyRequired) && !isHost
placedInLobby(lm, meetingId, auth) ==
    LET meeting == MeetingTable[meetingId]
        isHost == auth.userId = meeting.hostId \/ auth.role = "admin"
    IN (lockedOf(lm, meetingId) \/ lobbyRequiredOf(meeting)) /\ ~isHost

\* The sockets registered, and not yet closed, for the participant and the
\* meeting of s when s is registered.
Earlier(s) ==
    {o \in Sockets \ {s} : /\ pc[o] = "registered"
                            /\ conn[o].userId = conn[s].userId
                            /\ conn[o].meetingId = conn[s].meetingId}

\* The rest of the handler with the registration done before the result of
\* findMeeting is tested: a connection to an unknown meeting is put in a lobby
\* and then closed.
ResolveRegistersFirst(s) ==
    /\ pc[s] = "resolving"
    /\ audit' = <<>>
    /\ UNCHANGED <<conn, lockMap>>
    /\ IF conn[s].meetingId \notin Meetings
       THEN /\ pc' = [pc EXCEPT ![s] = "rejected"]
            /\ readyState' = CloseCall(readyState, s)
            /\ closed' = << [sock |-> s, code |-> 1008, reason |-> "Meeting not found"] >>
            /\ sent' = <<>>
            /\ mirror' = "none"
            /\ lastOp' = Op("resolve", "-", s, conn[s].meetingId, conn[s].userId, "notfound", 0, FALSE)
            /\ UNCHANGED superseded
            /\ lobbyMap' = addToLobby(lobbyMap, roomParticipants, s, conn[s]).lobbyMap
            /\ roomParticipants' = addToLobby(lobbyMap, roomParticipants, s, conn[s]).roomParticipants
            /\ UNCHANGED participantMap
       ELSE /\ pc' = [pc EXCEPT ![s] = "registered"]
            /\ superseded' = superseded \cup Earlier(s)
            /\ closed' = <<>>
            /\ mirror' \in MirrorOutcomes
            /\ UNCHANGED readyState
            /\ IF placedInLobby(lockMap, conn[s].meetingId, conn[s])
               THEN LET r == addToLobby(lobbyMap, roomParticipants, s, conn[s])
                    IN /\ lobbyMap' = r.lobbyMap
                       /\ roomParticipants' = r.roomParticipants
                       /\ sent' = r.sent
                       /\ lastOp' = Op("resolve", "-", s, conn[s].meetingId, conn[s].userId, "lobby", 0, TRUE)
                       /\ UNCHANGED participantMap
               ELSE LET r == joinRoom(participantMap, roomParticipants, s, conn[s])
                    IN /\ participantMap' = r.participantMap
                       /\ roomParticipants' = r.roomParticipants
                       /\ sent' = r.sent
                       /\ lastOp' = Op("resolve", "-", s, conn[s].meetingId, conn[s].userId, "joined", 0, TRUE)
                       /\ UNCHANGED lobbyMap

\* The connection handler from the return of findMeeting to its end: the
\* classification and the registration of the message and close handlers.
Resolve(s) ==
    /\ pc[s] = "resolving"
    /\ audit' = <<>>
    /\ UNCHANGED <<conn, lockMap>>
    /\ IF conn[s].meetingId \notin Meetings
       THEN /\ pc' = [pc EXCEPT ![s] = "rejected"]
            /\ readyState' = CloseCall(readyState, s)
            /\ closed' = << [sock |-> s, code |-> 1008, reason |-> "Meeting not found"] >>
            /\ sent' = <<>>
            /\ mirror' = "none"
            /\ lastOp' = Op("resolve", "-", s, conn[s].meetingId, conn[s].userId, "notfound", 0, FALSE)
            /\ UNCHANGED superseded
            /\ UNCHANGED <<participantMap, lobbyMap, roomParticipants>>
       ELSE /\ pc' = [pc EXCEPT ![s] = "registered"]
            /\ superseded' = superseded \cup Earlier(s)
            /\ closed' = <<>>
            /\ mirror' \in MirrorOutcomes
            /\ UNCHANGED readyState
            /\ IF placedInLobby(lockMap, conn[s].meetingId, conn[s])
               THEN LET r == addToLobby(lobbyMap, roomParticipants, s, conn[s])
                    IN /\ lobbyMap' = r.lobbyMap
                       /\ roomParticipants' = r.roomParticipants
                       /\ sent' = r.sent
                       /\ lastOp' = Op("resolve", "-", s, conn[s].meetingId, conn[s].userId, "lobby", 0, TRUE)
                       /\ UNCHANGED participantMap
               ELSE LET r == joinRoom(participantMap, roomParticipants, s, conn[s])
                    IN /\ participantMap' = r.participantMap
                       /\ roomParticipants' = r.roomParticipants
                       /\ sent' = r.sent
                       /\ lastOp' = Op("resolve", "-", s, conn[s].meetingId, conn[s].userId, "joined", 0, TRUE)
                       /\ UNCHANGED lobbyMap

\* socket.on("message"): a frame of an accepted socket.  Frames keep arriving
\* after the server has called close() until the transport is closed.
Message(s, data) ==
    /\ pc[s] = "registered"
    /\ readyState[s] # "CLOSED"
    /\ sent' = handleMessage(participantMap, readyState, s, conn[s].meetingId, data)
    /\ closed' = <<>>
    /\ audit' = <<>>
    /\ mirror' = "none"
    /\ lastOp' = Op("message", "-", s, conn[s].meetingId, conn[s].userId, data, 0,
                    senderFound(participantMap, s, conn[s].meetingId))
    /\ UNCHANGED <<pc, readyState, conn, registry>>

\* A frame of a socket that has no "message" listener: its handler is still
\* awaiting findMeeting, or has returned after socket.close(1008, ...).  The
\* event is emitted to nobody.
Unheard(s, data) ==
    /\ pc[s] \in {"resolving", "rejected"}
    /\ readyState[s] \in {"OPEN", "CLOSING"}
    /\ sent' = <<>>
    /\ closed' = <<>>
    /\ audit' = <<>>
    /\ mirror' = "none"
    /\ lastOp' = Op("message", "-", s, conn[s].meetingId, conn[s].userId, data, 0, FALSE)
    /\ UNCHANGED <<pc, readyState, conn, registry>>

\* The transport of s closes (the client leaves, the network fails, or a
\* closing handshake ends).  The "close" event reaches the handler of line 65
\* only if that handler is already registered; after it has run nothing of
\* the relay refers to the socket any more.  A rejected socket has no handler
\* at all, so its transport is not followed further.
SocketClose(s) ==
    /\ pc[s] \in {"resolving", "registered"}
    /\ readyState[s] \in {"OPEN", "CLOSING"}
    /\ superseded' = superseded \ {s}
    /\ readyState' = [readyState EXCEPT ![s] = "CLOSED"]
    /\ sent' = <<>>
    /\ closed' = <<>>
    /\ audit' = <<>>
    /\ UNCHANGED lockMap
    /\ IF pc[s] = "registered"
       THEN LET r == removeSocket(participantMap, lobbyMap, roomParticipants, s, conn[s].meetingId)
            IN /\ pc' = [pc EXCEPT ![s] = "closed"]
               /\ conn' = [conn EXCEPT ![s] = NoConn]
               /\ participantMap' = r.participantMap
               /\ lobbyMap' = r.lobbyMap
               /\ roomParticipants' = r.roomParticipants
               /\ mirror' \in MirrorOutcomes
               /\ lastOp' = Op("close", "-", s, conn[s].meetingId, conn[s].userId, "handled", 0, TRUE)
       ELSE /\ UNCHANGED <<pc, conn, participantMap, lobbyMap, roomParticipants>>
            /\ mirror' = "none"
            /\ lastOp' = Op("close", "-", s, conn[s].meetingId, conn[s].userId, "unhandled", 0, FALSE)

(***************************************************************************)
(* signaling.ts: the moderation functions, as actions on the registry      *)
(***************************************************************************)

\* setRoomLock that leaves the flag alone while a connection handler of the
\* meeting awaits the meeting lookup.
setRoomLockNotWhileConnecting(meetingId, locked) ==
    /\ lockMap' = IF \E s \in Sockets : pc[s] = "resolving" /\ conn[s].meetingId = meetingId
                  THEN lockMap ELSE MapSet(lockMap, meetingId, locked)
    /\ sent' = <<>>
    /\ closed' = <<>>
    /\ UNCHANGED <<pc, readyState, conn, participantMap, lobbyMap, roomParticipants>>

\* setRoomLock that sets the flag only of a meeting that already has a room
\* or a lobby.
setRoomLockExistingOnly(meetingId, locked) ==
    /\ lockMap' = IF meetingId \in DOMAIN participantMap \cup DOMAIN lobbyMap
                  THEN MapSet(lockMap, meetingId, locked) ELSE lockMap
    /\ sent' = <<>>
    /\ closed' = <<>>
    /\ UNCHANGED <<pc, readyState, conn, participantMap, lobbyMap, roomParticipants>>

\* setRoomLock that lets everybody who waits in the lobby into the room when
\* it unlocks.
setRoomLockAdmitsWaiting(meetingId, locked) ==
    /\ lockMap' = MapSet(lockMap, meetingId, locked)
    /\ IF ~locked /\ meetingId \in DOMAIN lobbyMap
       THEN /\ lobbyMap' = [lobbyMap EXCEPT ![meetingId] = EmptyMap]
            /\ participantMap' =
                  MapSet(participantMap, meetingId,
                         [u \in DOMAIN getParticipantRoom(participantMap, meetingId)
                                  \cup DOMAIN lobbyMap[meetingId] |->
                            IF u \in DOMAIN lobbyMap[meetingId]
                            THEN lobbyMap[meetingId][u]
                            ELSE participantMap[meetingId][u]])
       ELSE UNCHANGED <<lobbyMap, participantMap>>
    /\ sent' = <<>>
    /\ closed' = <<>>
    /\ UNCHANGED <<pc, readyState, conn, roomParticipants>>

\* setRoomLock that also forgets the lobby of the meeting when it unlocks.
setRoomLockDropsLobby(meetingId, locked) ==
    /\ lockMap' = MapSet(lockMap, meetingId, locked)
    /\ lobbyMap' = IF locked THEN lobbyMap ELSE MapDelete(lobbyMap, meetingId)
    /\ sent' = <<>>
    /\ closed' = <<>>
    /\ UNCHANGED <<pc, readyState, conn, participantMap, roomParticipants>>

setRoomLock(meetingId, locked) ==
    /\ lockMap' = MapSet(lockMap, meetingId, locked)
    /\ sent' = <<>>
    /\ closed' = <<>>
    /\ UNCHANGED <<pc, readyState, conn, participantMap, lobbyMap, roomParticipants>>

\* The registry and the sockets are left as they are.
noEffect ==
    /\ sent' = <<>>
    /\ closed' = <<>>
    /\ UNCHANGED <<pc, readyState, conn, registry>>

\* admitLobbyUser falling back to the admitted set: a participant who is not
\* in the lobby but is admitted is notified again.
admitLobbyUserRenotify(meetingId, userId) ==
    IF admitFinds(lobbyMap, roomParticipants, meetingId, userId)
    THEN LET socket == lobbyMap[meetingId][userId]
             r == joinRoom(participantMap, roomParticipants, socket, roomParticipants[socket])
         IN /\ lobbyMap' = [lobbyMap EXCEPT ![meetingId] = MapDelete(@, userId)]
            /\ participantMap' = r.participantMap
            /\ roomParticipants' = r.roomParticipants
            /\ sent' = r.sent \o << [to |-> socket, msg |-> Notice("admitted", meetingId, "-")] >>
            /\ closed' = <<>>
            /\ UNCHANGED <<pc, readyState, conn, lockMap>>
    ELSE IF kickFinds(participantMap, meetingId, userId)
    THEN /\ sent' = << [to |-> participantMap[meetingId][userId],
                        msg |-> Notice("admitted", meetingId, "-")] >>
         /\ closed' = <<>>
         /\ UNCHANGED <<pc, readyState, conn, registry>>
    ELSE noEffect

\* admitLobbyUser without lobby.delete(userId): the socket joins the room and
\* stays in the lobby.
admitLobbyUserKeepsLobby(meetingId, userId) ==
    IF admitFinds(lobbyMap, roomParticipants, meetingId, userId)
    THEN LET socket == lobbyMap[meetingId][userId]
             r == joinRoom(participantMap, roomParticipants, socket, roomParticipants[socket])
         IN /\ participantMap' = r.participantMap
            /\ roomParticipants' = r.roomParticipants
            /\ sent' = r.sent \o << [to |-> socket, msg |-> Notice("admitted", meetingId, "-")] >>
            /\ closed' = <<>>
            /\ UNCHANGED <<pc, readyState, conn, lockMap, lobbyMap>>
    ELSE noEffect

\* admitLobbyUser that sends `admitted` before joinRoom sends `joined`.
admitLobbyUserAdmittedFirst(meetingId, userId) ==
    IF admitFinds(lobbyMap, roomParticipants, meetingId, userId)
    THEN LET socket == lobbyMap[meetingId][userId]
             r == joinRoom(participantMap, roomParticipants, socket, roomParticipants[socket])
         IN /\ lobbyMap' = [lobbyMap EXCEPT ![meetingId] = MapDelete(@, userId)]
            /\ participantMap' = r.participantMap
            /\ roomParticipants' = r.roomParticipants
            /\ sent' = << [to |-> socket, msg |-> Notice("admitted", meetingId, "-")] >> \o r.sent
            /\ closed' = <<>>
            /\ UNCHANGED <<pc, readyState, conn, lockMap>>
    ELSE noEffect

admitLobbyUser(meetingId, userId) ==
    IF admitFinds(lobbyMap, roomParticipants, meetingId, userId)
    THEN LET socket == lobbyMap[meetingId][userId]
             r == joinRoom(participantMap, roomParticipants, socket, roomParticipants[socket])
         IN /\ lobbyMap' = [lobbyMap EXCEPT ![meetingId] = MapDelete(@, userId)]
            /\ participantMap' = r.participantMap
            /\ roomParticipants' = r.roomParticipants
            /\ sent' = r.sent \o << [to |-> socket, msg |-> Notice("admitted", meetingId, "-")] >>
            /\ closed' = <<>>
            /\ UNCHANGED <<pc, readyState, conn, lockMap>>
    ELSE noEffect

denyLobbyUser(meetingId, userId) ==
    IF denyFinds(lobbyMap, meetingId, userId)
    THEN LET socket == lobbyMap[meetingId][userId]
         IN /\ lobbyMap' = [lobbyMap EXCEPT ![meetingId] = MapDelete(@, userId)]
            /\ readyState' = CloseCall(readyState, socket)
            /\ closed' = << [sock |-> socket, code |-> 4001, reason |-> "Denied"] >>
            /\ sent' = <<>>
            /\ UNCHANGED <<pc, conn, participantMap, roomParticipants, lockMap>>
    ELSE noEffect

kickParticipant(meetingId, userId) ==
    IF kickFinds(participantMap, meetingId, userId)
    THEN LET socket == participantMap[meetingId][userId]
         IN /\ participantMap' = [participantMap EXCEPT ![meetingId] = MapDelete(@, userId)]
            /\ readyState' = CloseCall(readyState, socket)
            /\ closed' = << [sock |-> socket, code |-> 4002, reason |-> "Kicked"] >>
            /\ sent' = <<>>
            /\ UNCHANGED <<pc, conn, lobbyMap, roomParticipants, lockMap>>
    ELSE noEffect

\* muteParticipant that looks the participant up in the lobby when the room
\* does not hold it.
muteParticipantAnywhere(meetingId, userId, muted) ==
    IF kickFinds(participantMap, meetingId, userId)
    THEN /\ sent' = << [to |-> participantMap[meetingId][userId],
                        msg |-> Notice("mute", meetingId, BoolStr(muted))] >>
         /\ closed' = <<>>
         /\ UNCHANGED <<pc, readyState, conn, registry>>
    ELSE IF denyFinds(lobbyMap, meetingId, userId)
    THEN /\ sent' = << [to |-> lobbyMap[meetingId][userId],
                        msg |-> Notice("mute", meetingId, BoolStr(muted))] >>
         /\ closed' = <<>>
         /\ UNCHANGED <<pc, readyState, conn, registry>>
    ELSE noEffect

muteParticipant(meetingId, userId, muted) ==
    IF kickFinds(participantMap, meetingId, userId)
    THEN /\ sent' = << [to |-> participantMap[meetingId][userId],
                        msg |-> Notice("mute", meetingId, BoolStr(muted))] >>
         /\ closed' = <<>>
         /\ UNCHANGED <<pc, readyState, conn, registry>>
    ELSE noEffect

(***************************************************************************)
(* routes.ts: POST /meetings/:id/{lock,admit,deny,kick,mute}.  The caller  *)
(* has passed requireAuth and names a meeting of the table; the registry   *)
(* is touched only after the await of findMeeting, in one run of the event *)
(* loop.  status is the response the handler writes, 0 when it writes none *)
(* because its promise rejects.  The metadata updates that joinRoom,       *)
(* addToLobby, removeSocket and the moderation functions start through     *)
(* syncRoomMetadata end inside its try/catch; the one the lock route       *)
(* awaits itself does not.                                                 *)
(***************************************************************************)

\* The 403 exit shared by the five routes; it is taken before the body of the
\* request is parsed.
\* The 403 exit with the audit event of the command written before the
\* caller is checked.
RefusedAudited(op, actor, meetingId) ==
    /\ forbidden(meetingId, actor)
    /\ noEffect
    /\ audit' = << Audit(op, actor, meetingId, [meetingId |-> meetingId]) >>
    /\ mirror' = "none"
    /\ lastOp' = Op(op, actor, 0, meetingId, "-", "-", 403, FALSE)

Refused(op, actor, meetingId) ==
    /\ forbidden(meetingId, actor)
    /\ noEffect
    /\ audit' = <<>>
    /\ mirror' = "none"
    /\ lastOp' = Op(op, actor, 0, meetingId, "-", "-", 403, FALSE)

Allowed(actor, meetingId) == ~forbidden(meetingId, actor)

Lock(actor, meetingId, locked) ==
    \/ Refused("lock", actor, meetingId)
    \/ /\ Allowed(actor, meetingId)
       /\ setRoomLock(meetingId, locked)
       /\ mirror' \in MirrorOutcomes
       /\ IF mirror' = "ok"
          THEN /\ audit' = << Audit("meeting.lock", actor, meetingId, [locked |-> locked]) >>
               /\ lastOp' = Op("lock", actor, 0, meetingId, "-", BoolStr(locked), 200, locked)
          ELSE /\ audit' = <<>>
               /\ lastOp' = Op("lock", actor, 0, meetingId, "-", BoolStr(locked), 0, locked)

Admit(actor, meetingId, userId) ==
    \/ Refused("admit", actor, meetingId)
    \/ /\ Allowed(actor, meetingId)
       /\ admitLobbyUser(meetingId, userId)
       /\ mirror' \in (IF admitFinds(lobbyMap, roomParticipants, meetingId, userId)
                     THEN MirrorOutcomes ELSE {"none"})
       /\ audit' = IF admitFinds(lobbyMap, roomParticipants, meetingId, userId)
                   THEN << Audit("meeting.admit", actor, userId,
                               [meetingId |-> meetingId]) >> ELSE <<>>
       /\ lastOp' = Op("admit", actor,
                       IF admitFinds(lobbyMap, roomParticipants, meetingId, userId)
                       THEN lobbyMap[meetingId][userId] ELSE 0,
                       meetingId, userId, "-", 200,
                       admitFinds(lobbyMap, roomParticipants, meetingId, userId))

Deny(actor, meetingId, userId) ==
    \/ Refused("deny", actor, meetingId)
    \/ /\ Allowed(actor, meetingId)
       /\ denyLobbyUser(meetingId, userId)
       /\ mirror' \in (IF denyFinds(lobbyMap, meetingId, userId)
                     THEN MirrorOutcomes ELSE {"none"})
       /\ audit' = IF denyFinds(lobbyMap, meetingId, userId)
                   THEN << Audit("meeting.deny", actor, userId,
                               [meetingId |-> meetingId]) >> ELSE <<>>
       /\ lastOp' = Op("deny", actor,
                       IF denyFinds(lobbyMap, meetingId, userId)
                       THEN lobbyMap[meetingId][userId] ELSE 0,
                       meetingId, userId, "-", 200,
                       denyFinds(lobbyMap, meetingId, userId))

Kick(actor, meetingId, userId) ==
    \/ Refused("kick", actor, meetingId)
    \/ /\ Allowed(actor, meetingId)
       /\ kickParticipant(meetingId, userId)
       /\ mirror' \in (IF kickFinds(participantMap, meetingId, userId)
                     THEN MirrorOutcomes ELSE {"none"})
       /\ audit' = IF kickFinds(participantMap, meetingId, userId)
                   THEN << Audit("meeting.kick", actor, userId,
                               [meetingId |-> meetingId]) >> ELSE <<>>
       /\ lastOp' = Op("kick", actor,
                       IF kickFinds(participantMap, meetingId, userId)
                       THEN participantMap[meetingId][userId] ELSE 0,
                       meetingId, userId, "-", 200,
                       kickFinds(participantMap, meetingId, userId))

Mute(actor, meetingId, userId, muted) ==
    \/ Refused("mute", actor, meetingId)
    \/ /\ Allowed(actor, meetingId)
       /\ muteParticipant(meetingId, userId, muted)
       /\ mirror' = "none"
       /\ audit' = IF kickFinds(participantMap, meetingId, userId)
                   THEN << Audit("meeting.mute", actor, userId,
                               [meetingId |-> meetingId, muted |-> muted]) >> ELSE <<>>
       /\ lastOp' = Op("mute", actor,
                       IF kickFinds(participantMap, meetingId, userId)
                       THEN participantMap[meetingId][userId] ELSE 0,
                       meetingId, userId, BoolStr(muted), 200,
                       kickFinds(participantMap, meetingId, userId))

\* The relay and the moderation routes, for MaxModerated connections.  All
\* requests name meeting m1, whose policy does not require the lobby.
Next ==
    \/ \E token \in TokenInputs, meetingId \in {"m1", "", "mx"} :
          Connect(token, meetingId, MaxModerated) /\ UNCHANGED <<clientVars, backoff, superseded>>
    \/ \E s \in Sockets : Resolve(s) /\ UNCHANGED <<clientVars, backoff>>
    \/ \E s \in Sockets, data \in Payloads : Message(s, data) /\ UNCHANGED <<clientVars, backoff, superseded>>
    \/ \E s \in Sockets, data \in Payloads : Unheard(s, data) /\ UNCHANGED <<clientVars, backoff, superseded>>
    \/ \E s \in Sockets : SocketClose(s) /\ UNCHANGED <<clientVars, backoff>>
    \/ \E actor \in Users, locked \in BOOLEAN : Lock(actor, "m1", locked) /\ UNCHANGED <<clientVars, backoff, superseded>>
    \/ \E actor \in Users, u \in Users : Admit(actor, "m1", u) /\ UNCHANGED <<clientVars, backoff, superseded>>
    \/ \E actor \in Users, u \in Users : Deny(actor, "m1", u) /\ UNCHANGED <<clientVars, backoff, superseded>>
    \/ \E actor \in Users, u \in Users : Kick(actor, "m1", u) /\ UNCHANGED <<clientVars, backoff, superseded>>
    \/ \E actor \in Users, u \in Users, muted \in BOOLEAN : Mute(actor, "m1", u, muted) /\ UNCHANGED <<clientVars, backoff, superseded>>

Spec == Init /\ [][Next]_vars

\* The relay alone, for MaxSockets connections with valid tokens to both
\* meetings; m1 is locked and unlocked.
NextRelay ==
    \/ \E token \in Users, meetingId \in Meetings : Connect(token, meetingId, MaxSockets) /\ UNCHANGED <<clientVars, backoff, superseded>>
    \/ \E s \in Sockets : Resolve(s) /\ UNCHANGED <<clientVars, backoff>>
    \/ \E s \in Sockets, data \in Payloads : Message(s, data) /\ UNCHANGED <<clientVars, backoff, superseded>>
    \/ \E s \in Sockets, data \in Payloads : Unheard(s, data) /\ UNCHANGED <<clientVars, backoff, superseded>>
    \/ \E s \in Sockets : SocketClose(s) /\ UNCHANGED <<clientVars, backoff>>
    \/ \E actor \in {"h", "a"}, locked \in BOOLEAN : Lock(actor, "m1", locked) /\ UNCHANGED <<clientVars, backoff, superseded>>

SpecRelay == Init /\ [][NextRelay]_vars

\* The relay and the moderation routes on both meetings, for MaxModerated
\* connections of the host and of guest a.  Every frame carries the same
\* payload; guest a, whom every route refuses, calls lock and admit only.
NextRooms ==
    \/ \E token \in {"h", "a"}, meetingId \in Meetings :
          Connect(token, meetingId, MaxModerated) /\ UNCHANGED <<clientVars, backoff, superseded>>
    \/ \E s \in Sockets : Resolve(s) /\ UNCHANGED <<clientVars, backoff>>
    \/ \E s \in Sockets, data \in {"offer"} : Message(s, data) /\ UNCHANGED <<clientVars, backoff, superseded>>
    \/ \E s \in Sockets, data \in {"offer"} : Unheard(s, data) /\ UNCHANGED <<clientVars, backoff, superseded>>
    \/ \E s \in Sockets : SocketClose(s) /\ UNCHANGED <<clientVars, backoff>>
    \/ \E actor \in {"h", "a"}, m \in Meetings, locked \in BOOLEAN : Lock(actor, m, locked) /\ UNCHANGED <<clientVars, backoff, superseded>>
    \/ \E actor \in {"h", "a"}, m \in Meetings, u \in {"h", "a"} : Admit(actor, m, u) /\ UNCHANGED <<clientVars, backoff, superseded>>
    \/ \E actor \in {"h"}, m \in Meetings, u \in {"h", "a"} : Deny(actor, m, u) /\ UNCHANGED <<clientVars, backoff, superseded>>
    \/ \E actor \in {"h"}, m \in Meetings, u \in {"h", "a"} : Kick(actor, m, u) /\ UNCHANGED <<clientVars, backoff, superseded>>
    \/ \E actor \in {"h"}, m \in Meetings, u \in {"h", "a"}, muted \in BOOLEAN :
          Mute(actor, m, u, muted) /\ UNCHANGED <<clientVars, backoff, superseded>>

SpecRooms == Init /\ [][NextRooms]_vars

(***************************************************************************)
(* The reconnect delay of the client (web/src/lib/backoff.ts)              *)
(*                                                                         *)
(* Milliseconds are integers.  jitter and the value rng() returns are      *)
(* fractions in hundredths: jitter 20 is 0.2, rand 50 is 0.5.  The         *)
(* arithmetic is exact, where the code computes in doubles.                *)
(***************************************************************************)

\* options.baseMs ?? 500, options.maxMs ?? 10_000, options.jitter ?? 0.2
DefaultBaseMs == 500

DefaultMaxMs == 10000

DefaultJitter == 20

\* The options scheduleReconnect passes.
ReconnectBaseMs == 500

ReconnectMaxMs == 8000

\* Arguments of the calls explored.
BackoffAttempts == 1..MaxAttempt

BackoffBases == {3, DefaultBaseMs, 1000}

BackoffMaxes == {2000, ReconnectMaxMs, DefaultMaxMs}

BackoffJitters == {0, DefaultJitter, 150}

BackoffRands == {0, 50, 90, 99}

Min(a, b) == IF a < b THEN a ELSE b

Max(a, b) == IF a > b THEN a ELSE b

RECURSIVE Pow2(_)
\* Math.pow(2, n) for an integer n >= 0
Pow2(n) == IF n = 0 THEN 1 ELSE 2 * Pow2(n - 1)

\* Math.round of num / den, den > 0: the nearest integer, halves upward.
Round(num, den) == (2 * num + den) \div (2 * den)

\* exp of computeBackoffMs
BackoffExp(attempt, baseMs, maxMs) == Min(maxMs, baseMs * Pow2(Max(0, attempt - 1)))

\* computeBackoffMs that truncates where the code rounds.
computeBackoffMsTruncated(attempt, baseMs, maxMs, jitter, rand) ==
    LET exp == BackoffExp(attempt, baseMs, maxMs)
        jitterRange == exp * jitter
        jittered == exp * 10000 - jitterRange * 100 + rand * (jitterRange * 2)
    IN Max(0, jittered \div 10000)

\* jitterRange is in hundredths of a millisecond and jittered in
\* ten-thousandths.
computeBackoffMs(attempt, baseMs, maxMs, jitter, rand) ==
    LET exp == BackoffExp(attempt, baseMs, maxMs)
        jitterRange == exp * jitter
        jittered == exp * 10000 - jitterRange * 100 + rand * (jitterRange * 2)
    IN Max(0, Round(jittered, 10000))

\* A call of computeBackoffMs.
Compute ==
    /\ backoff.delay = -1
    /\ backoff' = [backoff EXCEPT !.delay = computeBackoffMs(backoff.attempt,
                       backoff.baseMs, backoff.maxMs, backoff.jitter, backoff.rand)]
    /\ UNCHANGED <<serverVars, clientVars>>

\* The call for the next attempt, with the same options and the same rng.
Retry ==
    /\ backoff.delay # -1
    /\ backoff.attempt < MaxAttempt
    /\ backoff' = [backoff EXCEPT !.attempt = @ + 1,
                       !.delay = computeBackoffMs(backoff.attempt + 1,
                           backoff.baseMs, backoff.maxMs, backoff.jitter, backoff.rand)]
    /\ UNCHANGED <<serverVars, clientVars>>

InitBackoff ==
    /\ ServerInit
    /\ ClientInit
    /\ backoff \in [attempt : BackoffAttempts, baseMs : BackoffBases,
                    maxMs : BackoffMaxes, jitter : BackoffJitters,
                    rand : BackoffRands, delay : {-1}]

NextBackoff == Compute \/ Retry

SpecBackoff == InitBackoff /\ [][NextBackoff]_vars

(***************************************************************************)
(* The signaling socket of the web client (web/src/App.tsx)                *)
(*                                                                         *)
(* Every action is one task of the browser: a press of the call button,    *)
(* the open or the close event of a socket, the reconnect timeout.  The    *)
(* events of different sockets arrive in any order.  A handler sees the    *)
(* state values of the render in which connectSignaling created it, the    *)
(* call button those of the latest render.  token and meetingToJoin are    *)
(* set throughout.                                                         *)
(***************************************************************************)

\* WebSocket.close() called by the client.
ClientClose(ws, s) ==
    IF s # 0 /\ ws[s] \in {"CONNECTING", "OPEN"} THEN [ws EXCEPT ![s] = "CLOSING"] ELSE ws

\* The function whose close() call took socket s out of CONNECTING or OPEN.
ClosedBy(by, ws, s, caller) ==
    IF s # 0 /\ ws[s] \in {"CONNECTING", "OPEN"} THEN [by EXCEPT ![s] = caller] ELSE by

clearReconnectTimer(timer) == IF timer.state # "null" THEN NoTimer ELSE timer

\* connectSignaling run by a caller that sees the state values in closure.
connectSignaling(closure) ==
    LET socket == CHOOSE s \in ClientSockets :
                      wsState[s] = "NONE" /\ \A o \in 1..(s - 1) : wsState[o] # "NONE"
    IN /\ \E s \in ClientSockets : wsState[s] = "NONE"
       /\ skipReconnectRef' = FALSE
       /\ wsState' = [ClientClose(wsState, wsRef) EXCEPT ![socket] = "CONNECTING"]
       /\ wsClosedBy' = ClosedBy(wsClosedBy, wsState, wsRef, "connectSignaling")
       /\ wsClosure' = [wsClosure EXCEPT ![socket] = closure]
       /\ wsRef' = socket
       /\ wsStatus' = "connecting"

\* scheduleReconnect that ignores skipReconnectRef.
scheduleReconnectAlways(skip, closure, timer, rand) ==
    IF ~closure.autoReconnect THEN timer
    ELSE [state |-> "pending",
          attempt |-> closure.reconnectAttempts + 1,
          delay |-> computeBackoffMs(closure.reconnectAttempts + 1, ReconnectBaseMs,
                                     ReconnectMaxMs, DefaultJitter, rand),
          closure |-> closure]

\* The value of reconnectTimerRef.current after scheduleReconnect.
scheduleReconnect(skip, closure, timer, rand) ==
    IF skip \/ ~closure.autoReconnect THEN timer
    ELSE [state |-> "pending",
          attempt |-> closure.reconnectAttempts + 1,
          delay |-> computeBackoffMs(closure.reconnectAttempts + 1, ReconnectBaseMs,
                                     ReconnectMaxMs, DefaultJitter, rand),
          closure |-> closure]

handleSocketClose(code, closure, rand) ==
    IF code \in {4001, 4002}
    THEN /\ skipReconnectRef' = TRUE
         /\ reconnectTimerRef' = reconnectTimerRef
    ELSE /\ skipReconnectRef' = skipReconnectRef
         /\ reconnectTimerRef' = scheduleReconnect(skipReconnectRef, closure,
                                                   reconnectTimerRef, rand)

isConnected == wsStatus = "connected" \/ callActive

\* toggleCall when not connected, up to its first await: connectSignaling
\* runs inside ensureSignalingConnected unless the current socket is open.
\* started is whether startCall and joinLiveKit bring a call up afterwards.
ToggleCallJoin(started) ==
    /\ ~leaving /\ ~isConnected /\ wsStatus # "connecting"
    /\ IF wsRef # 0 /\ wsState[wsRef] = "OPEN"
       THEN /\ skipReconnectRef' = FALSE
            /\ UNCHANGED <<wsState, wsClosure, wsRef, wsStatus, wsClosedBy>>
       ELSE connectSignaling([autoReconnect |-> autoReconnect,
                              reconnectAttempts |-> reconnectAttempts])
    /\ callActive' = started
    /\ terminal' = FALSE
    /\ clientOp' = [op |-> "join", socket |-> wsRef', code |-> 0]
    /\ UNCHANGED <<wsOpened, reconnectTimerRef, autoReconnect, reconnectAttempts, leaving,
                   timerSetBy>>
    /\ UNCHANGED <<serverVars, backoff>>

\* toggleCall when connected, up to its first await.
ToggleCallLeave ==
    /\ ~leaving /\ isConnected /\ wsStatus # "connecting"
    /\ skipReconnectRef' = TRUE
    /\ leaving' = TRUE
    /\ clientOp' = [op |-> "leave", socket |-> wsRef, code |-> 0]
    /\ UNCHANGED <<wsState, wsOpened, wsClosure, wsRef, reconnectTimerRef, autoReconnect,
                   reconnectAttempts, wsStatus, callActive, terminal, wsClosedBy,
                   timerSetBy>>
    /\ UNCHANGED <<serverVars, backoff>>

\* The rest of toggleCall when connected: endCall has run, then disconnectSocket.
DisconnectSocket ==
    /\ leaving
    /\ skipReconnectRef' = TRUE
    /\ wsState' = ClientClose(wsState, wsRef)
    /\ wsClosedBy' = ClosedBy(wsClosedBy, wsState, wsRef, "disconnectSocket")
    /\ wsRef' = 0
    /\ reconnectTimerRef' = clearReconnectTimer(reconnectTimerRef)
    /\ timerSetBy' = 0
    /\ reconnectAttempts' = 0
    /\ callActive' = FALSE
    /\ leaving' = FALSE
    /\ clientOp' = [op |-> "disconnect", socket |-> wsRef, code |-> 0]
    /\ UNCHANGED <<wsOpened, wsClosure, autoReconnect, wsStatus, terminal>>
    /\ UNCHANGED <<serverVars, backoff>>

\* socket.onopen
SocketOpen(s) ==
    /\ wsState[s] = "CONNECTING"
    /\ wsState' = [wsState EXCEPT ![s] = "OPEN"]
    /\ wsOpened' = [wsOpened EXCEPT ![s] = TRUE]
    /\ wsStatus' = "connected"
    /\ reconnectAttempts' = 0
    /\ reconnectTimerRef' = clearReconnectTimer(reconnectTimerRef)
    /\ timerSetBy' = 0
    /\ clientOp' = [op |-> "open", socket |-> s, code |-> 0]
    /\ UNCHANGED <<wsClosure, wsRef, skipReconnectRef, autoReconnect, callActive,
                   leaving, terminal, wsClosedBy>>
    /\ UNCHANGED <<serverVars, backoff>>

\* The close codes a socket can end with: 1006 stands for every code other
\* than the two of the relay, which only a socket that was open can get.
CloseCodes(s) == IF wsOpened[s] THEN {1006, 4001, 4002} ELSE {1006}

\* socket.onclose; rand is what Math.random returns in computeBackoffMs.
\* The 4002 branch ends the call (leaveLiveKit, endCall).
SocketClosed(s, code, rand) ==
    /\ wsState[s] \in {"CONNECTING", "OPEN", "CLOSING"}
    /\ code \in CloseCodes(s)
    /\ wsState' = [wsState EXCEPT ![s] = "CLOSED"]
    /\ wsStatus' = "disconnected"
    /\ handleSocketClose(code, wsClosure[s], rand)
    /\ timerSetBy' = IF code \notin {4001, 4002} /\ ~skipReconnectRef /\ wsClosure[s].autoReconnect
                     THEN s ELSE timerSetBy
    /\ callActive' = IF code = 4002 THEN FALSE ELSE callActive
    /\ terminal' = IF code \in {4001, 4002} THEN TRUE ELSE terminal
    /\ clientOp' = [op |-> "close", socket |-> s, code |-> code]
    /\ UNCHANGED <<wsOpened, wsClosure, wsRef, autoReconnect, reconnectAttempts, leaving,
                   wsClosedBy>>
    /\ UNCHANGED <<serverVars, backoff>>

\* The callback of the timeout of scheduleReconnect.  The ref keeps the id.
ReconnectTimeout ==
    /\ reconnectTimerRef.state = "pending"
    /\ reconnectAttempts' = reconnectTimerRef.attempt
    /\ connectSignaling(reconnectTimerRef.closure)
    /\ reconnectTimerRef' = [reconnectTimerRef EXCEPT !.state = "fired"]
    /\ clientOp' = [op |-> "timeout", socket |-> wsRef', code |-> 0]
    /\ UNCHANGED <<wsOpened, autoReconnect, callActive, leaving, terminal, timerSetBy>>
    /\ UNCHANGED <<serverVars, backoff>>

\* The "Auto-reconnect signaling" checkbox.
SetAutoReconnect(value) ==
    /\ value # autoReconnect
    /\ autoReconnect' = value
    /\ clientOp' = [op |-> "auto", socket |-> 0, code |-> 0]
    /\ UNCHANGED <<wsState, wsOpened, wsClosure, wsRef, skipReconnectRef,
                   reconnectTimerRef, reconnectAttempts, wsStatus, callActive,
                   leaving, terminal, wsClosedBy, timerSetBy>>
    /\ UNCHANGED <<serverVars, backoff>>

NextClient ==
    \/ \E started \in BOOLEAN : ToggleCallJoin(started)
    \/ ToggleCallLeave
    \/ DisconnectSocket
    \/ \E s \in ClientSockets : SocketOpen(s)
    \/ \E s \in ClientSockets, code \in {1006, 4001, 4002}, rand \in BackoffRands :
          SocketClosed(s, code, rand)
    \/ ReconnectTimeout
    \/ \E value \in BOOLEAN : SetAutoReconnect(value)

SpecClient == Init /\ [][NextClient]_vars

(***************************************************************************)
(* Views of the registry used by the properties                            *)
(***************************************************************************)

\* userId is a key of the lobby set of meetingId.
InLobby(meetingId, userId) ==
    meetingId \in DOMAIN lobbyMap /\ userId \in DOMAIN lobbyMap[meetingId]

\* userId is a key of the admitted set of meetingId.
InAdmitted(meetingId, userId) ==
    meetingId \in DOMAIN participantMap /\ userId \in DOMAIN participantMap[meetingId]

\* The sockets bound in the lobby set, and in the admitted set, of meetingId.
LobbySockets(meetingId) ==
    IF meetingId \in DOMAIN lobbyMap
    THEN {lobbyMap[meetingId][u] : u \in DOMAIN lobbyMap[meetingId]} ELSE {}

AdmittedSockets(meetingId) ==
    IF meetingId \in DOMAIN participantMap
    THEN {participantMap[meetingId][u] : u \in DOMAIN participantMap[meetingId]} ELSE {}

\* The userIds a snapshot lists.
Listed(list) == {e.userId : e \in list}

Forwarded == {i \in 1..Len(sent) : sent[i].msg.type = "data"}

(***************************************************************************)
(* C1: no participantId is in both the lobby set and the admitted set of   *)
(* the same meeting, in any reachable state.                               *)
(***************************************************************************)
C1_AtMostOneSet ==
    \A m \in Meetings, u \in Users : ~(InLobby(m, u) /\ InAdmitted(m, u))

(***************************************************************************)
(* C2: a connection registered in a lobby set is delivered no client       *)
(* payload, and no payload it sends is delivered to any connection.        *)
(***************************************************************************)
C2_LobbyIsolated ==
    \A i \in Forwarded :
        /\ \A m \in Meetings : sent[i].to \notin LobbySockets(m)
        /\ \A m \in Meetings : lastOp.sock \notin LobbySockets(m)

(***************************************************************************)
(* C3: a payload of an admitted connection S of meeting M is delivered     *)
(* unmodified, exactly once, to every other connection of M's admitted set *)
(* whose transport is open, and to nobody else (not S, not a lobby         *)
(* connection, not a connection of another meeting); a peer that is not    *)
(* open is skipped, delivery to the others goes on and the sender gets no  *)
(* error.                                                                  *)
(***************************************************************************)
C3_FanOutExact ==
    (lastOp.op = "message" /\ lastOp.ret) =>
        LET S == lastOp.sock
            M == lastOp.meetingId
            peers == {s \in AdmittedSockets(M) : s # S /\ readyState[s] = "OPEN"}
        IN /\ Len(sent) = Cardinality(peers)
           /\ {sent[i].to : i \in 1..Len(sent)} = peers
           /\ \A i \in 1..Len(sent) :
                 /\ sent[i].msg = Notice("data", "-", lastOp.arg)
                 /\ sent[i].to # S
                 /\ conn[sent[i].to].meetingId = M
                 /\ \A m \in Meetings : sent[i].to \notin LobbySockets(m)
           /\ closed = <<>>

\* S has sent with an open peer and a peer whose transport is closed in the
\* admitted set: the one is served, the other skipped.
C3_Witness ==
    /\ lastOp.op = "message" /\ lastOp.ret
    /\ Len(sent) = 1
    /\ \E s \in AdmittedSockets(lastOp.meetingId) : s # lastOp.sock /\ readyState[s] = "CLOSED"

(***************************************************************************)
(* C4: a payload of a connection that is not the admitted-set entry of its *)
(* meeting when it is processed (kicked, replaced, or no admitted set) is  *)
(* forwarded to no connection.                                             *)
(***************************************************************************)
C4_DroppedWhenNotAdmitted ==
    (lastOp.op = "message" /\ ~lastOp.ret) => sent = <<>>

(***************************************************************************)
(* C5: admit(M, P) returns true iff P is in M's lobby set at the call; on  *)
(* false the lobby set, the admitted set and the lock flag are unchanged   *)
(* and nothing is sent.                                                    *)
(***************************************************************************)
C5_AdmitIffInLobby ==
    [][ \A m \in Meetings, u \in Users :
          (lastOp'.op = "admit" /\ lastOp'.status = 200
             /\ lastOp'.meetingId = m /\ lastOp'.userId = u) =>
            /\ lastOp'.ret = InLobby(m, u)
            /\ ~lastOp'.ret =>
                 /\ UNCHANGED <<participantMap, lobbyMap, lockMap, readyState>>
                 /\ sent' = <<>>
                 /\ closed' = <<>> ]_vars

\* admit has returned false for a participant who is already admitted.
C5_Witness ==
    /\ lastOp.op = "admit" /\ lastOp.status = 200 /\ ~lastOp.ret
    /\ InAdmitted(lastOp.meetingId, lastOp.userId)

(***************************************************************************)
(* C6: when admit(M, P) returns true, P's connection leaves the lobby set  *)
(* and enters the admitted set in the same step (the next snapshot lists P *)
(* under participants and not under lobby), and that connection and no     *)
(* other is sent an `admitted` notification (sent: socket.send is called   *)
(* on it; whether its transport is still open is the matter of C9).        *)
(***************************************************************************)
C6_AdmitMovesAndNotifies ==
    [][ \A m \in Meetings, u \in Users :
          (lastOp'.op = "admit" /\ lastOp'.ret
             /\ lastOp'.meetingId = m /\ lastOp'.userId = u) =>
            /\ InLobby(m, u)
            /\ ~InLobby(m, u)'
            /\ InAdmitted(m, u)'
            /\ participantMap'[m][u] = lobbyMap[m][u]
            /\ u \in Listed(getRoomSnapshot(m).participants)'
            /\ u \notin Listed(getRoomSnapshot(m).lobby)'
            /\ Cardinality({i \in 1..Len(sent') : sent'[i].msg.type = "admitted"}) = 1
            /\ \A i \in 1..Len(sent') : sent'[i].to = lobbyMap[m][u]
            /\ \A i \in 1..Len(sent') :
                  sent'[i].msg.type = "admitted" => sent'[i].msg.meetingId = m ]_vars

\* admit has returned true and the participant's connection is in the
\* admitted set, notified.
C6_Witness ==
    /\ lastOp.op = "admit" /\ lastOp.ret
    /\ InAdmitted(lastOp.meetingId, lastOp.userId)
    /\ participantMap[lastOp.meetingId][lastOp.userId] = lastOp.sock
    /\ \E i \in 1..Len(sent) : sent[i].msg.type = "admitted" /\ sent[i].to = lastOp.sock

(***************************************************************************)
(* C7: deny(M, P) returns true exactly when P is in M's lobby set; it then *)
(* removes P from the lobby, closes that connection with code 4001, and    *)
(* the next snapshot of M excludes P.  Otherwise it returns false, closes  *)
(* no connection and changes no state.                                     *)
(***************************************************************************)
C7_DenyRemovesAndCloses ==
    [][ \A m \in Meetings, u \in Users :
          (lastOp'.op = "deny" /\ lastOp'.status = 200
             /\ lastOp'.meetingId = m /\ lastOp'.userId = u) =>
            /\ lastOp'.ret = InLobby(m, u)
            /\ lastOp'.ret =>
                 /\ ~InLobby(m, u)'
                 /\ closed' = << [sock |-> lobbyMap[m][u], code |-> 4001, reason |-> "Denied"] >>
                 /\ u \notin Listed(getRoomSnapshot(m).lobby)'
                 /\ u \notin Listed(getRoomSnapshot(m).participants)'
            /\ ~lastOp'.ret =>
                 /\ closed' = <<>>
                 /\ UNCHANGED <<registry, readyState>> ]_vars

(***************************************************************************)
(* C8: kick(M, P) returns true exactly when P is in M's admitted set; it   *)
(* then removes P from the admitted set, closes that connection with code  *)
(* 4002, and the next snapshot of M excludes P.  Otherwise it returns      *)
(* false, closes no connection and changes no state.                       *)
(***************************************************************************)
C8_KickRemovesAndCloses ==
    [][ \A m \in Meetings, u \in Users :
          (lastOp'.op = "kick" /\ lastOp'.status = 200
             /\ lastOp'.meetingId = m /\ lastOp'.userId = u) =>
            /\ lastOp'.ret = InAdmitted(m, u)
            /\ lastOp'.ret =>
                 /\ ~InAdmitted(m, u)'
                 /\ closed' = << [sock |-> participantMap[m][u], code |-> 4002, reason |-> "Kicked"] >>
                 /\ u \notin Listed(getRoomSnapshot(m).lobby)'
                 /\ u \notin Listed(getRoomSnapshot(m).participants)'
            /\ ~lastOp'.ret =>
                 /\ closed' = <<>>
                 /\ UNCHANGED <<registry, readyState>> ]_vars

(***************************************************************************)
(* C9: a connection whose transport has closed is in neither the lobby set *)
(* nor the admitted set of its meeting, also when the transport closed     *)
(* while the connection handler was awaiting the meeting lookup.           *)
(***************************************************************************)
C9_ClosedNotRegistered ==
    \A s \in Sockets : readyState[s] = "CLOSED" =>
        \A m \in Meetings : s \notin LobbySockets(m) /\ s \notin AdmittedSockets(m)

(***************************************************************************)
(* C10: after a connection of participant P has been registered, P has     *)
(* exactly one entry across the lobby set and the admitted set of the      *)
(* meeting, bound to that newest connection.                               *)
(***************************************************************************)
C10_OneEntryNewest ==
    (lastOp.op = "resolve" /\ lastOp.ret) =>
        LET m == lastOp.meetingId
            u == lastOp.userId
        IN /\ ~(InLobby(m, u) /\ InAdmitted(m, u))
           /\ InLobby(m, u) => lobbyMap[m][u] = lastOp.sock
           /\ InAdmitted(m, u) => participantMap[m][u] = lastOp.sock

\* The connection whose registration was the last callback, and whether its
\* principal is the host of the meeting or an admin.
Registered == lastOp.op = "resolve" /\ lastOp.ret

Exempt(s) ==
    conn[s].userId = MeetingTable[conn[s].meetingId].hostId \/ conn[s].role = "admin"

(***************************************************************************)
(* C11: a connection of a participant who is neither host nor admin,       *)
(* classified while the meeting has lobbyRequired = false and its lock     *)
(* flag is false, is registered in the admitted set and not in the lobby   *)
(* set.                                                                    *)
(***************************************************************************)
C11_OpenMeetingAdmitsDirectly ==
    LET s == lastOp.sock
        m == lastOp.meetingId
    IN (/\ Registered
        /\ ~lobbyRequiredOf(MeetingTable[m])
        /\ ~lockedOf(lockMap, m)
        /\ ~Exempt(s)) =>
          /\ lastOp.arg = "joined"
          /\ InAdmitted(m, lastOp.userId)
          /\ participantMap[m][lastOp.userId] = s
          /\ s \notin LobbySockets(m)
          /\ sent = << [to |-> s, msg |-> Notice("joined", m, conn[s].role)] >>

\* Guest a has been registered in m1 after the lock flag was set back to
\* false.
C11_Witness ==
    /\ Registered
    /\ lastOp.userId = "a" /\ lastOp.meetingId = "m1"
    /\ "m1" \in DOMAIN lockMap /\ ~lockMap["m1"]
    /\ lastOp.sock \in AdmittedSockets("m1")

(***************************************************************************)
(* C12: while the lock flag of M is true (after lock(M, true), until       *)
(* lock(M, false)) every connection of a participant who is neither host   *)
(* nor admin is registered in M's lobby set, also when M's policy has      *)
(* lobbyRequired = false.  The flag is read when the connection is         *)
(* registered, after the meeting lookup.                                   *)
(***************************************************************************)
C12_LockedMeetingSendsToLobby ==
    LET s == lastOp.sock
        m == lastOp.meetingId
    IN (Registered /\ lockedOf(lockMap, m) /\ ~Exempt(s)) =>
          /\ lastOp.arg = "lobby"
          /\ InLobby(m, lastOp.userId)
          /\ lobbyMap[m][lastOp.userId] = s
          /\ s \notin AdmittedSockets(m)
          /\ sent = << [to |-> s, msg |-> Notice("lobby", m, "-")] >>

\* Guest a has been placed in the lobby of the locked m1, whose policy does
\* not require the lobby.
C12_Witness ==
    /\ Registered
    /\ lastOp.userId = "a" /\ lastOp.meetingId = "m1"
    /\ ~lobbyRequiredOf(MeetingTable["m1"])
    /\ lockedOf(lockMap, "m1")
    /\ lastOp.sock \in LobbySockets("m1")

(***************************************************************************)
(* C13: a connecting principal who is the host of the meeting or an admin  *)
(* is registered directly in the admitted set whatever the lock flag and   *)
(* the policy; no other connecting principal is registered as admitted     *)
(* while the meeting is locked or requires the lobby.                      *)
(***************************************************************************)
C13_ExemptIffHostOrAdmin ==
    LET s == lastOp.sock
        m == lastOp.meetingId
    IN Registered =>
          /\ Exempt(s) =>
                /\ lastOp.arg = "joined"
                /\ participantMap[m][lastOp.userId] = s
                /\ s \notin LobbySockets(m)
          /\ (lastOp.arg = "joined"
                /\ (lockedOf(lockMap, m) \/ lobbyRequiredOf(MeetingTable[m]))) => Exempt(s)
          /\ lastOp.arg = "joined" <=> s \in AdmittedSockets(m)

\* An admin who is not the host has been registered as admitted in the
\* locked m1.
C13_Witness ==
    /\ Registered
    /\ lastOp.userId = "adm" /\ lastOp.meetingId = "m1"
    /\ lockedOf(lockMap, "m1")
    /\ lastOp.sock \in AdmittedSockets("m1")

C15_ForbiddenChangesNothing ==
    [][ (lastOp'.op \in {"lock", "admit", "deny", "kick", "mute"}) =>
          /\ (lastOp'.status = 403) <=> forbidden(lastOp'.meetingId, lastOp'.actor)
          /\ (lastOp'.status = 403) =>
                /\ UNCHANGED <<participantMap, lobbyMap, roomParticipants, lockMap>>
                /\ UNCHANGED <<pc, readyState, conn>>
                /\ sent' = <<>>
                /\ closed' = <<>>
                /\ audit' = <<>>
                /\ mirror' = "none"
                /\ ~lastOp'.ret ]_vars

\* Guest a has asked to kick while the host is admitted, and was refused.
C15_Witness ==
    /\ lastOp.op = "kick" /\ lastOp.status = 403 /\ lastOp.actor = "a"
    /\ InAdmitted("m1", "h")
    /\ audit = <<>>

(***************************************************************************)
(* C16: the registry operations on one meeting are linearized: every       *)
(* admit(P), deny(P), kick(P), registration of P and close of P finds P in *)
(* exactly one set or in none, and of an admit(P) and a deny(P) that       *)
(* follow one another on a lobby participant exactly one returns true, the *)
(* state after both being the one that command left.                       *)
(***************************************************************************)
C16_CommandsSeeOneSet ==
    [][ \A m \in Meetings, u \in Users :
          (lastOp'.meetingId = m /\ lastOp'.userId = u) =>
            /\ (lastOp'.op \in {"admit", "deny", "kick", "resolve", "close"}
                  /\ lastOp'.status # 403) =>
                  ~(InLobby(m, u) /\ InAdmitted(m, u))
            /\ (lastOp.meetingId = m /\ lastOp.userId = u /\ lastOp.ret
                  /\ lastOp.op = "admit" /\ lastOp'.op = "deny"
                  /\ lastOp'.status = 200) =>
                  ~lastOp'.ret /\ UNCHANGED <<registry, readyState>>
            /\ (lastOp.meetingId = m /\ lastOp.userId = u /\ lastOp.ret
                  /\ lastOp.op = "deny" /\ lastOp'.op = "admit"
                  /\ lastOp'.status = 200) =>
                  ~lastOp'.ret /\ UNCHANGED <<registry, readyState>> ]_vars

(***************************************************************************)
(* C17: a connection attempt without token or meetingId, with an invalid   *)
(* token, or naming an unknown meeting is closed and is never in a lobby   *)
(* or admitted set; the sets and the lock flags are as before the attempt, *)
(* and no payload of the connection is forwarded.                          *)
(***************************************************************************)
C17_RejectedLeavesNoTrace ==
    [][ /\ \A s \in Sockets : pc'[s] = "rejected" =>
              /\ s \notin DOMAIN roomParticipants'
              /\ \A m \in DOMAIN lobbyMap' :
                    \A u \in DOMAIN lobbyMap'[m] : lobbyMap'[m][u] # s
              /\ \A m \in DOMAIN participantMap' :
                    \A u \in DOMAIN participantMap'[m] : participantMap'[m][u] # s
              /\ readyState'[s] \in {"CLOSING", "CLOSED"}
        /\ (lastOp'.op \in {"connect", "resolve"} /\ ~lastOp'.ret) =>
              /\ pc'[lastOp'.sock] = "rejected"
              /\ UNCHANGED <<participantMap, lobbyMap, roomParticipants, lockMap>>
              /\ sent' = <<>>
              /\ Len(closed') = 1 /\ closed'[1].sock = lastOp'.sock
        /\ (lastOp'.op = "message" /\ pc[lastOp'.sock] = "rejected") =>
              /\ sent' = <<>>
              /\ UNCHANGED <<participantMap, lobbyMap, roomParticipants, lockMap>> ]_vars

\* A connection to an unknown meeting was rejected and has sent a frame while
\* somebody is admitted in m1.
C17_Witness ==
    /\ lastOp.op = "message"
    /\ pc[lastOp.sock] = "rejected"
    /\ conn[lastOp.sock].meetingId = "mx"
    /\ AdmittedSockets("m1") # {}
    /\ sent = <<>>

\* The last callback rejected a connection attempt.
Rejection(op) == op.op \in {"connect", "resolve"} /\ ~op.ret

(***************************************************************************)
(* C18: the three rejections at connect time are told apart by the close   *)
(* code: two attempts rejected for different reasons (missing parameters,  *)
(* invalid token, meeting not found) are closed with different codes.      *)
(***************************************************************************)
C18_RejectionCodesDiffer ==
    [][ (/\ Rejection(lastOp) /\ Rejection(lastOp')
         /\ closed # <<>> /\ closed' # <<>>
         /\ lastOp.arg # lastOp'.arg) =>
           closed[1].code # closed'[1].code ]_vars

(***************************************************************************)
(* C19: a failure of the SFU metadata update never reaches the caller of a *)
(* registry or moderation operation: join, leave, admit, deny, kick and    *)
(* lock end with their normal result and response when the update fails.   *)
(***************************************************************************)
C19_MirrorFailureIsContained ==
    mirror = "failed" =>
        /\ lastOp.op \in {"lock", "admit", "deny", "kick"} =>
              /\ lastOp.status = 200
              /\ audit # <<>>
        /\ lastOp.op = "lock" => lockedOf(lockMap, lastOp.meetingId) = lastOp.ret
        /\ lastOp.op = "resolve" => lastOp.ret /\ pc[lastOp.sock] = "registered"
        /\ lastOp.op = "close" => lastOp.ret /\ pc[lastOp.sock] = "closed"

(***************************************************************************)
(* C20: setMute(M, P, muted) returns true exactly when P is in the         *)
(* admitted set of M, and then sends that connection one `mute`            *)
(* notification carrying muted; it returns false and sends nothing when P  *)
(* is absent or only in the lobby.  Either way the lobby set, the admitted *)
(* set and the lock flag are unchanged and no connection is closed.        *)
(***************************************************************************)
C20_MuteNotifiesAdmittedOnly ==
    [][ \A m \in Meetings, u \in Users :
          (lastOp'.op = "mute" /\ lastOp'.status = 200
             /\ lastOp'.meetingId = m /\ lastOp'.userId = u) =>
            /\ lastOp'.ret = InAdmitted(m, u)
            /\ lastOp'.ret =>
                  sent' = << [to |-> participantMap[m][u],
                              msg |-> [type |-> "mute", meetingId |-> m,
                                       arg |-> lastOp'.arg]] >>
            /\ ~lastOp'.ret => sent' = <<>>
            /\ lastOp'.arg \in {"true", "false"}
            /\ closed' = <<>>
            /\ UNCHANGED <<participantMap, lobbyMap, roomParticipants, lockMap>>
            /\ UNCHANGED <<pc, readyState, conn>> ]_vars

\* The host has muted an admitted participant while somebody waits in the
\* lobby, and the admitted connection got the notification.
C20_Witness ==
    /\ lastOp.op = "mute" /\ lastOp.status = 200 /\ lastOp.ret
    /\ LobbySockets(lastOp.meetingId) # {}
    /\ Len(sent) = 1 /\ sent[1].msg.type = "mute" /\ sent[1].to = lastOp.sock

C22_ForwardedInArrivalOrder ==
    [][ /\ (\E i \in 1..Len(sent') : sent'[i].msg.type = "data") =>
              lastOp'.op = "message"
        /\ lastOp'.op = "message" =>
              /\ \A i \in 1..Len(sent') : sent'[i].msg = Notice("data", "-", lastOp'.arg)
              /\ \A i, j \in 1..Len(sent') : sent'[i].to = sent'[j].to => i = j
        /\ (lastOp.op = "message" /\ lastOp'.op = "message"
              /\ lastOp.sock = lastOp'.sock) =>
              \A i \in 1..Len(sent), j \in 1..Len(sent') :
                  sent[i].to = sent'[j].to =>
                      /\ sent[i].msg.arg = lastOp.arg
                      /\ sent'[j].msg.arg = lastOp'.arg ]_vars

\* An admitted sender's frame "answer" has been written to two admitted
\* peers.
C22_Witness ==
    /\ lastOp.op = "message" /\ lastOp.ret /\ lastOp.arg = "answer"
    /\ Len(sent) = 2
    /\ \A i \in 1..Len(sent) : sent[i].to \in AdmittedSockets(lastOp.meetingId)

(***************************************************************************)
(* C23: every operation on meeting M (connect, close, lock, admit, deny,   *)
(* kick, mute, fan-out) leaves the lobby set, the admitted set and the     *)
(* lock flag of every other meeting unchanged, and sends nothing to, and   *)
(* closes nothing of, the connections of other meetings.                   *)
(***************************************************************************)
C23_OtherMeetingsUntouched ==
    [][ \A m \in Meetings :
          (lastOp'.op \in {"resolve", "close", "lock", "admit", "deny", "kick",
                           "mute", "message"}
             /\ lastOp'.meetingId # m) =>
            /\ getLobbyRoom(lobbyMap', m) = getLobbyRoom(lobbyMap, m)
            /\ getParticipantRoom(participantMap', m) = getParticipantRoom(participantMap, m)
            /\ (m \in DOMAIN lobbyMap') = (m \in DOMAIN lobbyMap)
            /\ (m \in DOMAIN participantMap') = (m \in DOMAIN participantMap)
            /\ (m \in DOMAIN lockMap') = (m \in DOMAIN lockMap)
            /\ lockedOf(lockMap', m) = lockedOf(lockMap, m)
            /\ getRoomSnapshot(m)' = getRoomSnapshot(m)
            /\ \A i \in 1..Len(sent') : conn[sent'[i].to].meetingId # m
            /\ \A i \in 1..Len(closed') : conn[closed'[i].sock].meetingId # m ]_vars

\* The host has kicked guest a out of m1 while a is also admitted in m2
\* through another connection.
C23_Witness ==
    /\ lastOp.op = "kick" /\ lastOp.ret /\ lastOp.meetingId = "m1" /\ lastOp.userId = "a"
    /\ InAdmitted("m2", "a")
    /\ readyState[participantMap["m2"]["a"]] = "OPEN"

(***************************************************************************)
(* C24: registering a participant as admitted and then removing it is a    *)
(* round trip: the snapshot after the registration lists the participant   *)
(* under participants, and the snapshot after the removal of that          *)
(* connection lists it neither under participants nor under lobby.         *)
(***************************************************************************)
C24_RegisterRemoveRoundTrip ==
    [][ \A m \in Meetings, u \in Users :
          (lastOp'.meetingId = m /\ lastOp'.userId = u) =>
            /\ (lastOp'.op = "resolve" /\ lastOp'.arg = "joined") =>
                  u \in Listed(getRoomSnapshot(m).participants)'
            /\ (lastOp'.op = "close" /\ lastOp'.ret
                  /\ InAdmitted(m, u) /\ participantMap[m][u] = lastOp'.sock) =>
                  /\ u \notin Listed(getRoomSnapshot(m).participants)'
                  /\ u \notin Listed(getRoomSnapshot(m).lobby)' ]_vars

(***************************************************************************)
(* C25: setRoomLock(M, x) always succeeds and returns x, also for a        *)
(* meeting that never had a connection; afterwards the snapshot of M has   *)
(* locked equal to the value set last, with empty lobby and participants   *)
(* lists if nobody connected; a meeting whose lock was never set has       *)
(* locked = false.                                                         *)
(***************************************************************************)
C25_LockSetsAndSnapshotShows ==
    [][ \A m \in Meetings :
          /\ (lastOp'.op = "lock" /\ lastOp'.status # 403 /\ lastOp'.meetingId = m) =>
                /\ BoolStr(lastOp'.ret) = lastOp'.arg
                /\ getRoomSnapshot(m).locked' = lastOp'.ret
                /\ getRoomSnapshot(m).lobby' = getRoomSnapshot(m).lobby
                /\ getRoomSnapshot(m).participants' = getRoomSnapshot(m).participants
          /\ ~(lastOp'.op = "lock" /\ lastOp'.status # 403 /\ lastOp'.meetingId = m) =>
                getRoomSnapshot(m).locked' = getRoomSnapshot(m).locked
          /\ m \notin DOMAIN lockMap' => ~getRoomSnapshot(m).locked'
          /\ (\A s \in Sockets : pc'[s] \notin {"registered", "closed"}) =>
                /\ getRoomSnapshot(m).lobby' = {}
                /\ getRoomSnapshot(m).participants' = {} ]_vars

\* m1 has been locked before anybody connected to it: its snapshot is locked
\* with empty lists.
C25_Witness ==
    /\ lastOp.op = "lock" /\ lastOp.ret /\ lastOp.meetingId = "m1"
    /\ participantMap = EmptyMap /\ lobbyMap = EmptyMap
    /\ \A s \in Sockets : pc[s] = "idle"
    /\ getRoomSnapshot("m1") = [locked |-> TRUE, lobby |-> {}, participants |-> {}]

(***************************************************************************)
(* C26: the snapshot of M is the registry state at the call: locked is the *)
(* lock flag of M, the lobby list holds exactly the participantIds of the  *)
(* lobby set and the participants list exactly those of the admitted set,  *)
(* each once, and every entry carries participantId, role and name only,   *)
(* never a connection handle.                                              *)
(***************************************************************************)
C26_SnapshotIsTheRegistry ==
    \A m \in Meetings :
        LET snap == getRoomSnapshot(m)
        IN /\ snap.locked = (m \in DOMAIN lockMap /\ lockMap[m])
           /\ Listed(snap.lobby) = {u \in Users : InLobby(m, u)}
           /\ Listed(snap.participants) = {u \in Users : InAdmitted(m, u)}
           /\ Cardinality(snap.lobby) = Cardinality({u \in Users : InLobby(m, u)})
           /\ Cardinality(snap.participants) = Cardinality({u \in Users : InAdmitted(m, u)})
           /\ \A e \in snap.lobby \cup snap.participants :
                 /\ DOMAIN e = {"userId", "role", "name"}
                 /\ e.role = RoleOf[e.userId]
                 /\ e.name = NameOf[e.userId]

\* The locked m1 has somebody admitted and somebody waiting.
C26_Witness ==
    /\ getRoomSnapshot("m1").locked
    /\ getRoomSnapshot("m1").lobby # {}
    /\ getRoomSnapshot("m1").participants # {}

(***************************************************************************)
(* C27: a moderation command that succeeds (lock; admit, deny, kick or     *)
(* mute returning true) emits exactly one audit event, which names the     *)
(* actor, the action, the target and the meeting; a command that returns   *)
(* false or is refused emits none.                                         *)
(***************************************************************************)
C27_EventOf ==
    [lock |-> "meeting.lock", admit |-> "meeting.admit", deny |-> "meeting.deny",
     kick |-> "meeting.kick", mute |-> "meeting.mute"]

C27_OneAuditPerSuccess ==
    lastOp.op \in DOMAIN C27_EventOf =>
        IF (lastOp.op = "lock" /\ lastOp.status # 403) \/ (lastOp.op # "lock" /\ lastOp.ret)
        THEN /\ Len(audit) = 1
             /\ audit[1].event = C27_EventOf[lastOp.op]
             /\ audit[1].actor = lastOp.actor
             /\ IF lastOp.op = "lock"
                THEN audit[1].target = lastOp.meetingId
                ELSE /\ audit[1].target = lastOp.userId
                     /\ audit[1].meta.meetingId = lastOp.meetingId
        ELSE audit = <<>>

(***************************************************************************)
(* C28: after the client's socket is closed with code 4001 or 4002 the     *)
(* client opens no signaling connection on its own until the user connects *)
(* again: no reconnect is scheduled and no pending reconnect fires.        *)
(***************************************************************************)
C28_TerminalCloseStopsReconnect ==
    [][ terminal' =>
          /\ \A s \in ClientSockets : wsState[s] = "NONE" => wsState'[s] = "NONE"
          /\ clientOp'.op # "timeout"
          /\ reconnectTimerRef'.state = "pending" => reconnectTimerRef' = reconnectTimerRef
      ]_vars

(***************************************************************************)
(* C29: for fixed options and a fixed rng value the delay of               *)
(* computeBackoffMs does not decrease from one attempt to the next, grows  *)
(* strictly while baseMs * 2^(attempt-1) is below maxMs, and is at most    *)
(* maxMs for every attempt.                                                *)
(***************************************************************************)
C29_GrowsAndCapsAtMax ==
    backoff.delay # -1 =>
        LET next == computeBackoffMs(backoff.attempt + 1, backoff.baseMs, backoff.maxMs,
                                     backoff.jitter, backoff.rand)
        IN /\ backoff.delay <= next
           /\ backoff.baseMs * Pow2(backoff.attempt - 1) < backoff.maxMs =>
                 backoff.delay < next
           /\ backoff.delay <= backoff.maxMs

(***************************************************************************)
(* C30, as stated: with exp = min(maxMs, baseMs * 2^max(0, attempt-1)) the *)
(* result lies between exp*(1-jitter) and exp*(1+jitter) for every rng     *)
(* value, equals exp*(1-jitter) when rng returns 0, and is never negative. *)
(* The bounds are compared in hundredths of a millisecond.                 *)
(***************************************************************************)
C30_JitterWithinRange ==
    backoff.delay # -1 =>
        LET exp == BackoffExp(backoff.attempt, backoff.baseMs, backoff.maxMs)
        IN /\ exp * (100 - backoff.jitter) <= 100 * backoff.delay
           /\ 100 * backoff.delay <= exp * (100 + backoff.jitter)
           /\ backoff.rand = 0 => 100 * backoff.delay = exp * (100 - backoff.jitter)
           /\ backoff.delay >= 0

(***************************************************************************)
(* C30, amended: the result is the jittered value rounded to the nearest   *)
(* millisecond and raised to 0 when negative.  It lies within half a       *)
(* millisecond of the interval from max(0, exp*(1-jitter)) to              *)
(* exp*(1+jitter) for every rng value, equals exp*(1-jitter) rounded to    *)
(* the nearest integer (0 when that is negative) when rng returns 0, and   *)
(* is never negative.                                                      *)
(***************************************************************************)
C30_JitterWithinRangeRounded ==
    backoff.delay # -1 =>
        LET exp == BackoffExp(backoff.attempt, backoff.baseMs, backoff.maxMs)
        IN /\ Max(0, exp * (100 - backoff.jitter)) - 50 <= 100 * backoff.delay
           /\ 100 * backoff.delay <= exp * (100 + backoff.jitter) + 50
           /\ backoff.rand = 0 =>
                 backoff.delay = Max(0, Round(exp * (100 - backoff.jitter), 100))
           /\ backoff.delay >= 0

\* 3 ms less 20 % is 2.4 ms, returned as 2.
C30_Witness ==
    /\ backoff.attempt = 1 /\ backoff.baseMs = 3 /\ backoff.jitter = DefaultJitter
    /\ backoff.rand = 0
    /\ backoff.delay = 2

(***************************************************************************)
(* C31: the room metadata built from the snapshot of a meeting has locked  *)
(* equal to the lock flag of the snapshot, lobbyCount equal to the length  *)
(* of its lobby list and participantCount equal to the length of its       *)
(* participants list.                                                      *)
(***************************************************************************)
C31_MetadataCountsTheSnapshot ==
    \A m \in Meetings :
        LET snapshot == getRoomSnapshot(m)
            metadata == buildRoomMetadata(snapshot)
        IN /\ metadata.locked = snapshot.locked
           /\ metadata.lobbyCount = Cardinality({u \in Users : InLobby(m, u)})
           /\ metadata.lobbyCount = Cardinality(snapshot.lobby)
           /\ metadata.participantCount = Cardinality({u \in Users : InAdmitted(m, u)})
           /\ metadata.participantCount = Cardinality(snapshot.participants)

\* A mirror update of locked m1 with two admitted and one waiting was started.
C31_Witness ==
    /\ mirror # "none"
    /\ buildRoomMetadata(getRoomSnapshot("m1")).locked
    /\ buildRoomMetadata(getRoomSnapshot("m1")).lobbyCount = 1
    /\ buildRoomMetadata(getRoomSnapshot("m1")).participantCount = 2

(***************************************************************************)
(* C32: a connect that is accepted sends exactly one classification        *)
(* notification, to the connecting socket and to no other: `lobby` if the  *)
(* socket was registered in the lobby set, `joined` if it was registered   *)
(* in the admitted set.                                                    *)
(***************************************************************************)
C32_OneClassificationNotice ==
    \A s \in Sockets :
        (lastOp.op = "resolve" /\ lastOp.ret /\ lastOp.sock = s) =>
            /\ Len(sent) = 1
            /\ sent[1].to = s
            /\ sent[1].msg.meetingId = conn[s].meetingId
            /\ sent[1].msg.type \in {"lobby", "joined"}
            /\ sent[1].msg.type = "lobby" <=>
                  /\ InLobby(conn[s].meetingId, conn[s].userId)
                  /\ lobbyMap[conn[s].meetingId][conn[s].userId] = s
            /\ sent[1].msg.type = "joined" <=>
                  /\ InAdmitted(conn[s].meetingId, conn[s].userId)
                  /\ participantMap[conn[s].meetingId][conn[s].userId] = s

\* A guest is classified into the lobby of m2 while the host is in its room.
C32_Witness ==
    /\ lastOp.op = "resolve" /\ lastOp.ret /\ lastOp.arg = "lobby"
    /\ lastOp.meetingId = "m2"
    /\ InAdmitted("m2", "h")
    /\ Len(sent) = 1 /\ sent[1].to = lastOp.sock /\ sent[1].msg.type = "lobby"

(***************************************************************************)
(* C33: a connection is sent no forwarded payload before it has been sent  *)
(* `joined`, and a connection promoted from the lobby is sent `joined`     *)
(* before `admitted` with no payload in between.  Step by step: a payload  *)
(* goes only to a socket that was in an admitted set before the callback;  *)
(* a socket that enters an admitted set is sent `joined` in that callback, *)
(* before anything else; and an admit writes `joined`, then `admitted`,    *)
(* and nothing else.                                                       *)
(***************************************************************************)
C33_JoinedBeforePayloads ==
    [][ \A c \in Sockets :
          /\ (\E i \in 1..Len(sent') : sent'[i].to = c /\ sent'[i].msg.type = "data") =>
                \E m \in Meetings : c \in AdmittedSockets(m)
          /\ ((\A m \in Meetings : c \notin AdmittedSockets(m))
                /\ (\E m \in Meetings : c \in AdmittedSockets(m)')) =>
                \E i \in 1..Len(sent') :
                    /\ sent'[i].to = c /\ sent'[i].msg.type = "joined"
                    /\ \A j \in 1..(i - 1) : sent'[j].to # c
          /\ (lastOp'.op = "admit" /\ lastOp'.ret /\ lastOp'.sock = c) =>
                /\ c \in LobbySockets(lastOp'.meetingId)
                /\ Len(sent') = 2
                /\ sent'[1].to = c /\ sent'[1].msg.type = "joined"
                /\ sent'[2].to = c /\ sent'[2].msg.type = "admitted" ]_vars

\* A guest has been promoted while the host is in the room of m1.
C33_Witness ==
    /\ lastOp.op = "admit" /\ lastOp.ret
    /\ InAdmitted("m1", "h")
    /\ participantMap["m1"]["h"] # lastOp.sock
    /\ readyState[participantMap["m1"]["h"]] = "OPEN"
    /\ Len(sent) = 2 /\ sent[1].msg.type = "joined" /\ sent[2].msg.type = "admitted"

(***************************************************************************)
(* C34: when an older connection of participant P closes after a newer     *)
(* connection of P has been registered for the same meeting, the close     *)
(* removes nothing from the registry: both sets of the meeting stay as     *)
(* they are, so the entry of the newer connection stays in its set.        *)
(***************************************************************************)
C34_SupersededCloseRemovesNothing ==
    [][ \A s \in Sockets :
          (lastOp'.op = "close" /\ lastOp'.ret /\ lastOp'.sock = s /\ s \in superseded) =>
              /\ participantMap' = participantMap
              /\ lobbyMap' = lobbyMap
              /\ lockMap' = lockMap ]_vars

(***************************************************************************)
(* C35: the lock flag is read when the connection is classified, after the *)
(* meeting lookup.  If lock(M, true) is the last thing applied while the   *)
(* connect of a participant who is neither host nor admin awaits the       *)
(* lookup, the participant is placed in the lobby; if it is lock(M, false) *)
(* and M has lobbyRequired = false, the participant is admitted.           *)
(***************************************************************************)
C35_LockReadAtClassification ==
    [][ \A s \in Sockets :
          (/\ lastOp.op = "lock" /\ lastOp.status # 403
           /\ pc[s] = "resolving" /\ conn[s].meetingId = lastOp.meetingId
           /\ lastOp.meetingId \in Meetings
           /\ ~Exempt(s)
           /\ lastOp'.op = "resolve" /\ lastOp'.sock = s) =>
              /\ lastOp.ret =>
                    /\ lastOp'.ret /\ lastOp'.arg = "lobby"
                    /\ s \in LobbySockets(lastOp.meetingId)'
                    /\ s \notin AdmittedSockets(lastOp.meetingId)'
              /\ (~lastOp.ret /\ ~lobbyRequiredOf(MeetingTable[lastOp.meetingId])) =>
                    /\ lastOp'.ret /\ lastOp'.arg = "joined"
                    /\ s \in AdmittedSockets(lastOp.meetingId)'
                    /\ s \notin LobbySockets(lastOp.meetingId)' ]_vars

\* m1 has been locked while the connect of guest a awaits the lookup.
C35_Witness ==
    /\ lastOp.op = "lock" /\ lastOp.ret /\ lastOp.meetingId = "m1"
    /\ lockedOf(lockMap, "m1")
    /\ \E s \in Sockets : /\ pc[s] = "resolving"
                          /\ conn[s].meetingId = "m1" /\ conn[s].userId = "a"
                          /\ readyState[s] = "OPEN"

(***************************************************************************)
(* C36: a meeting whose policy is missing, or has no lobbyRequired field,  *)
(* is treated as lobby-required: a participant who is neither host nor     *)
(* admin and connects to it is placed in the lobby, also when the meeting  *)
(* is unlocked.                                                            *)
(***************************************************************************)
C36_MissingPolicyRequiresLobby ==
    /\ \A policy \in {"null", "absent"} :
          lobbyRequiredOf([hostId |-> "h", policy |-> policy])
    /\ LET s == lastOp.sock
           m == lastOp.meetingId
       IN (Registered /\ MeetingTable[m].policy \in {"null", "absent"} /\ ~Exempt(s)) =>
             /\ lastOp.arg = "lobby"
             /\ InLobby(m, lastOp.userId)
             /\ lobbyMap[m][lastOp.userId] = s
             /\ s \notin AdmittedSockets(m)

\* Guest a has been placed in the lobby of m2, which has no policy and was
\* never locked.
C36_Witness ==
    /\ Registered
    /\ lastOp.userId = "a" /\ lastOp.meetingId = "m2"
    /\ MeetingTable["m2"].policy = "null"
    /\ "m2" \notin DOMAIN lockMap
    /\ lastOp.sock \in LobbySockets("m2")

(***************************************************************************)
(* C37: every connection that passed classification, whose transport is    *)
(* still open and for which no deny or kick was issued (deny and kick      *)
(* call close(), which leaves readyState OPEN), is bound in the lobby set  *)
(* or the admitted set of its meeting: no open connection is in neither.   *)
(***************************************************************************)
C37_OpenIsRegistered ==
    \A s \in Sockets :
        (pc[s] = "registered" /\ readyState[s] = "OPEN") =>
            s \in LobbySockets(conn[s].meetingId) \cup AdmittedSockets(conn[s].meetingId)

(***************************************************************************)
(* C38: a manual disconnect is final: right after disconnectSocket no      *)
(* reconnect timeout is pending, and the close event of a socket that      *)
(* disconnectSocket closed, whenever it is delivered, leaves no reconnect  *)
(* timeout pending.                                                        *)
(***************************************************************************)
C38_ManualDisconnectIsFinal ==
    [][ /\ clientOp'.op = "disconnect" => reconnectTimerRef'.state # "pending"
        /\ (/\ clientOp'.op = "close"
            /\ wsState'[clientOp'.socket] # wsState[clientOp'.socket]
            /\ wsClosedBy[clientOp'.socket] = "disconnectSocket") =>
               reconnectTimerRef'.state # "pending" ]_vars

(***************************************************************************)
(* C39: the close event of a socket that connectSignaling has replaced     *)
(* never gets the replacement closed: a reconnect timeout set by the close *)
(* event of a socket that connectSignaling closed does not run while the   *)
(* current socket is connecting or open.                                   *)
(***************************************************************************)
C39_SupersededCloseSparesCurrent ==
    [][ (/\ clientOp'.op = "timeout"
         /\ reconnectTimerRef.state = "pending"
         /\ timerSetBy # 0
         /\ wsClosedBy[timerSetBy] = "connectSignaling") =>
            ~(wsRef # 0 /\ wsState[wsRef] \in {"CONNECTING", "OPEN"}) ]_vars

====
